---------------------------- MODULE Spec2Model ----------------------------
(***************************************************************************)
(* A model of affctrllib: the moving-average Filter, the state estimator   *)
(* AffState, the feedback controller AffCtrl and the two threads           *)
(* AffStateThread / AffCtrlThread that share the estimator.                *)
(*                                                                         *)
(* Python floats are modelled as exact rationals <<n, d>> in lowest terms  *)
(* with d > 0, so that division (y_prev / n_points, (q - q_prev) / dt,     *)
(* 255 / (max - min)) is computed and not taken as the identity.  NumPy    *)
(* values carry their shape: a scalar, a 1-d array, or the outcome of an   *)
(* operation numpy refuses (incompatible shapes).                          *)
(***************************************************************************)
EXTENDS Integers, Sequences, FiniteSets, TLC

VARIABLES
    filt,       \* the Filter object of the filter specification
    filtOut,    \* what its last update returned
    filtHist,   \* the inputs it has been given so far, oldest first
    astate,     \* the AffState object of the estimator specification
    aFrame,     \* the raw frame of its last update call
    aRaised,    \* whether that call raised
    aDone,      \* the filtered q of the last two updates that returned
    aCalls,     \* the number of update calls made
    actrl,      \* the AffCtrl object of the controller specification
    cTable,     \* the last set/add_inactive_joints call and whether it raised
    cArgs,      \* <<q, dq, pa, pb, qdes, dqdes>> of its last update call
    cScheme,    \* what the feedback scheme returned in that call
    cOut,       \* what the call returned (or that it raised)
    cCalls,     \* the number of update calls made
    mainPc,         \* where the main thread is: "ready" or inside prepare()
    sensPc,         \* where AffStateThread.run is
    ctrlPc,         \* where AffCtrlThread.run is
    stateLock,      \* the holder of AffStateThread._lock, or "free"
    ctrlLock,       \* the holder of AffCtrlThread._lock, or "free"
    sensStopped,    \* AffStateThread._stopped
    ctrlStopped,    \* AffCtrlThread._stopped
    idledEvent,     \* AffStateThread._idled
    est,            \* the shared AffState: for each field, the number of the
                    \* update that wrote it (0: never assigned)
    sensSock,       \* the sensory socket: "none", "open" or "closed"
    cmdSock,        \* the command socket: "open" or "closed"
    pending,        \* frames received by the sensory socket and not yet read
    arrived,        \* frames that have arrived so far
    idleN,          \* samples taken by the idle() call in progress
    got,            \* what the control loop copied from the estimator
    ctrlIter,       \* iterations the control loop has begun
    ctrlErr,        \* the exception that ended AffCtrlThread.run, or "none"
    sendsAfterStop, \* command frames sent since ctrlStopped was set
    sensWarned,     \* AffStateThread.run warned that idling was skipped
    waitCall,       \* the wait_for_idling(timeout) call of the main thread
    hasLogger,      \* AffCtrlThread was constructed with an output file
    logStored,      \* rows in the control thread's Logger
    logDumped,      \* rows in the file its last dump() wrote
    ctrlJoined,     \* AffCtrlThread.join() has returned
    schemeRef,      \* the main thread holds what feedback_scheme returned
    gains,          \* how often the gains of the loaded scheme were set
    clock,          \* what time.time() and time.time_ns() return, in ticks
    rate,           \* a Rate object
    timer,          \* a Timer object
    tCall,          \* the last call on the Rate or the Timer and its effects
    runner,         \* a PeriodicRunner object
    rCall,          \* the last call on the PeriodicRunner
    fArgs,          \* the arguments of the last call of a function
    fOut            \* what that call returned or raised

filterVars == <<filt, filtOut, filtHist>>
stateVars == <<astate, aFrame, aRaised, aDone, aCalls>>

ctrlVars == <<actrl, cTable, cArgs, cScheme, cOut, cCalls>>

\* the objects of the sequential specifications
objectVars == <<filterVars, stateVars, ctrlVars>>

threadVars == <<mainPc, sensPc, ctrlPc, stateLock, ctrlLock, sensStopped,
                ctrlStopped, idledEvent, est, sensSock, cmdSock, pending,
                arrived, idleN, got, ctrlIter, ctrlErr, sendsAfterStop,
                sensWarned, waitCall, hasLogger, logStored, logDumped,
                ctrlJoined, schemeRef, gains>>

\* the clock and the timing utilities
timeVars == <<clock, rate, timer, tCall>>
runnerVars == <<runner, rCall>>
funVars == <<fArgs, fOut>>
utilVars == <<timeVars, runnerVars, funVars>>

\* what the two run() methods leave alone, but for the rows they log
auxVars == <<waitCall, hasLogger, logDumped, ctrlJoined, schemeRef, gains>>

vars == <<filterVars, stateVars, ctrlVars, threadVars, utilVars>>

-----------------------------------------------------------------------------
(* Bounds of the model.                                                    *)

\* largest sample value fed to a stand-alone Filter
MaxSample == 2
\* number of updates a stand-alone Filter receives
MaxFilterUpdates == 6

\* update calls of the window specification
MaxWindowUpdates == 3
\* largest window size a stand-alone Filter is constructed with
MaxNPoints == 3
\* number of joints of the robot (Affetto.dof, read from the configuration)
DOF == 2
\* amplitude of the non-zero sensory frames
MaxAmp == 1
\* number of update calls an estimator receives
MaxStateUpdates == 3
\* the non-zero value of a controller input
MaxCtrlVal == 1
\* number of update calls a controller receives
MaxCtrlUpdates == 2

\* calls made on one feedback scheme object
MaxAccumCalls == 3
\* largest number of rows of the inactive-joint table
MaxTableRows == 2
\* the characters of the longest pattern string
MaxPatternLen == 3
\* the largest bound of an input range
MaxRangeBound == 3

\* the loop period of the Rate and of the Timer, in ticks
Period == 2

NsPerSecond == 1000000000

\* control cycles of the pacing specification
MaxPaceCycles == 3

\* AffCtrl.DEFAULT_FREQ
AFFCTRL_DEFAULT_FREQ == 30

\* the clock reading when the Rate and the Timer are constructed
ClockOrigin == 1

\* largest clock reading
MaxClock == 6

\* largest backward step of the wall clock, in ticks
MaxStepBack == 1

\* largest numerator and denominator of a dt or freq given to a runner
MaxRunnerVal == 2

\* ticks of the clock in one configured sampling period
TicksPerPeriod == 2

\* largest time between two frames, in ticks
MaxGap == 3

\* largest first element of a list given to zip_arrays or unzip_array
MaxZipVal == 2

\* largest joint position given to a PTP profile
MaxPtpVal == 2

\* largest duration T of a PTP profile
MaxPtpT == 2

\* set_trajectory calls made, and the times a cycle can read
MaxTrajCalls == 3

MaxTrajT == 2
\* the configuration of the controller: gains, stiffness, the pressure given
\* to set/add_inactive_joints and the input range
ConfKP == 2
ConfKD == 3
ConfKI == 1
ConfStiff == 4
ConfPressGain == 2
ConfPressure == 5
ConfRangeMin == 1
ConfRangeMax == 6

-----------------------------------------------------------------------------
(* Rational arithmetic standing for Python float arithmetic.               *)

Abs(i) == IF i < 0 THEN -i ELSE i

RECURSIVE GCD(_, _)
GCD(a, b) == IF b = 0 THEN a ELSE GCD(b, a % b)

\* n/d in lowest terms, d > 0
Rat(n, d) ==
    LET g == GCD(Abs(n), Abs(d))
        s == IF d < 0 THEN -1 ELSE 1
    IN  <<(s * n) \div g, (s * d) \div g>>

RInt(i) == <<i, 1>>

\* the arithmetic operator named op applied to two floats (the divisor is
\* never zero where the model divides)
ROp(op, x, y) ==
    Rat(CASE op = "+" -> x[1] * y[2] + y[1] * x[2]
          [] op = "-" -> x[1] * y[2] - y[1] * x[2]
          [] op = "*" -> x[1] * y[1]
          [] op = "/" -> x[1] * y[2],
        IF op = "/" THEN x[2] * y[1] ELSE x[2] * y[2])

RAdd(x, y) == ROp("+", x, y)
RSub(x, y) == ROp("-", x, y)
RMul(x, y) == ROp("*", x, y)
RDiv(x, y) == ROp("/", x, y)
RLess(x, y) == x[1] * y[2] < y[1] * x[2]
RAbs(x) == <<Abs(x[1]), x[2]>>

-----------------------------------------------------------------------------
(* NumPy values: [sh |-> "s", v |-> <<x>>] is a Python/NumPy scalar,       *)
(* [sh |-> "a", v |-> <<x1, .., xn>>] a 1-d array of n elements,           *)
(* ShapeError the ValueError numpy raises when two operands cannot be      *)
(* broadcast together, and Unset an attribute that was never assigned.     *)

Scalar(x) == [sh |-> "s", v |-> <<x>>]
Arr(xs) == [sh |-> "a", v |-> xs]
ShapeError == [sh |-> "err", v |-> <<>>]
Unset == [sh |-> "unset", v |-> <<>>]

IsErr(x) == x.sh = "err"
IsSet(x) == x.sh # "unset"

\* numpy's broadcasting rule for two 1-d arrays of lengths m and n
Broadcastable(m, n) == m = n \/ m = 1 \/ n = 1

BLen(m, n) == IF m = 1 THEN n ELSE m

\* element i of x stretched to length n
BElem(x, i) == IF Len(x.v) = 1 THEN x.v[1] ELSE x.v[i]

\* an element-wise binary operation with numpy's broadcasting: two scalars
\* give a scalar, a scalar and an array or two arrays an array
Elementwise(op, x, y) ==
    IF IsErr(x) \/ IsErr(y) THEN ShapeError
    ELSE IF ~Broadcastable(Len(x.v), Len(y.v)) THEN ShapeError
    ELSE [sh |-> IF x.sh = "s" /\ y.sh = "s" THEN "s" ELSE "a",
          v  |-> [i \in 1..BLen(Len(x.v), Len(y.v)) |->
                     ROp(op, BElem(x, i), BElem(y, i))]]

NAdd(x, y) == Elementwise("+", x, y)
NSub(x, y) == Elementwise("-", x, y)
NMul(x, y) == Elementwise("*", x, y)
NDiv(x, y) == Elementwise("/", x, y)

-----------------------------------------------------------------------------
(* filter.py: class Filter                                                 *)

DEFAULT_N_POINTS == 5

\* Filter.__init__: the buffer holds n_points zeros and the running sum is 0
Filter_init(n_points) ==
    [n_points |-> n_points,
     x_buffer |-> [i \in 1..n_points |-> Scalar(RInt(0))],
     y_prev   |-> Scalar(RInt(0))]

\* Filter.set_n_points (and the n_points setter): the buffer is not touched
Filter_set_n_points(f, n_points) == [f EXCEPT !.n_points = n_points]

\* Filter.update with the oldest sample popped but not subtracted
Filter_update_obj_NoSubtract(f, x) ==
    [f EXCEPT !.x_buffer = Tail(Append(f.x_buffer, x)),
              !.y_prev = NAdd(f.y_prev, x)]

\* Filter.update, the object after the call.  The sample is appended before
\* the subtraction is evaluated, so a subtraction that raises leaves the
\* sample in the buffer and y_prev as it was.
Filter_update_obj(f, x) ==
    LET appended == Append(f.x_buffer, x)
        sum == NAdd(f.y_prev, x)
    IN  IF IsErr(sum) THEN [f EXCEPT !.x_buffer = appended]
        ELSE LET y == NSub(sum, Head(appended))
             IN  IF IsErr(y) THEN [f EXCEPT !.x_buffer = Tail(appended)]
                 ELSE [f EXCEPT !.x_buffer = Tail(appended), !.y_prev = y]

\* Filter.update, the value returned (ShapeError when the call raises)
Filter_update_ret(f, x) ==
    LET y == NSub(NAdd(f.y_prev, x), Head(Append(f.x_buffer, x)))
    IN  IF IsErr(y) THEN ShapeError
        ELSE NDiv(y, Scalar(RInt(f.n_points)))


-----------------------------------------------------------------------------
(* affcomm.py: unzip_array_as_ndarray                                      *)

\* an unzip that drops the incomplete last row instead of raising
unzip_array_as_ndarray_Truncating(array, ncol) ==
    [c \in 1..ncol |->
        Arr([r \in 1..(Len(array) \div ncol) |-> RInt(array[(r - 1) * ncol + c])])]

\* np.array(array).reshape((int(len(array) / ncol), ncol)).T : the ncol
\* columns of the frame, or ShapeError when reshape refuses the length
unzip_array_as_ndarray(array, ncol) ==
    LET nrow == Len(array) \div ncol
    IN  IF nrow * ncol # Len(array) THEN <<ShapeError>>
        ELSE [c \in 1..ncol |->
                 Arr([r \in 1..nrow |-> RInt(array[(r - 1) * ncol + c])])]

-----------------------------------------------------------------------------
(* affstate.py: class AffState                                             *)

AFFSTATE_DEFAULT_FREQ == 100

\* AffState.__init__ without dt, freq or configuration: three default
\* filters, the default frequency, and no state attribute assigned yet
AffState_init ==
    [freq          |-> RInt(AFFSTATE_DEFAULT_FREQ),
     dt            |-> RDiv(RInt(1), RInt(AFFSTATE_DEFAULT_FREQ)),
     filter_list   |-> [c \in 1..3 |-> Filter_init(DEFAULT_N_POINTS)],
     raw_data      |-> <<>>,
     has_raw_data  |-> FALSE,
     data_ndarray  |-> <<>>,
     filtered_data |-> <<>>,
     q_prev        |-> Unset,
     dq            |-> Unset,
     n_steps       |-> 0,
     idled         |-> FALSE]

\* the list comprehension of AffState.update: the filters are updated in
\* order, and the first one that raises ends the comprehension
RECURSIVE FilterChannels(_, _, _)
FilterChannels(fl, data, c) ==
    IF c > Len(data) \/ c > Len(fl) THEN [fl |-> fl, raised |-> FALSE]
    ELSE LET f2 == Filter_update_obj(fl[c], data[c])
             fl2 == [fl EXCEPT ![c] = f2]
         IN  IF IsErr(Filter_update_ret(fl[c], data[c]))
             THEN [fl |-> fl2, raised |-> TRUE]
             ELSE FilterChannels(fl2, data, c + 1)

\* np.zeros(shape=q.shape)
ZerosLike(q) == Arr([i \in 1..Len(q.v) |-> RInt(0)])

\* an update that keeps the first q as q_prev for ever
StoreQPrev_OnlyFirst(s, q) == IF IsSet(s.q_prev) THEN s ELSE [s EXCEPT !.q_prev = q]

\* the assignment self._q_prev = self.q at the end of AffState.update
StoreQPrev(s, q) == [s EXCEPT !.q_prev = q]

\* AffState.update: the object after the call, and whether the call raised
AffState_update(s, raw_data) ==
    LET s1 == [s EXCEPT !.raw_data = raw_data, !.has_raw_data = TRUE]
        data == unzip_array_as_ndarray(raw_data, 3)
    IN  IF IsErr(data[1]) THEN [s |-> s1, raised |-> TRUE]
        ELSE
        LET s2 == [s1 EXCEPT !.data_ndarray = data]
            fc == FilterChannels(s.filter_list, data, 1)
            s3 == [s2 EXCEPT !.filter_list = fc.fl]
        IN  IF fc.raised THEN [s |-> s3, raised |-> TRUE]
            ELSE
            LET filtered == [c \in 1..3 |->
                                Filter_update_ret(s.filter_list[c], data[c])]
                s4 == [s3 EXCEPT !.filtered_data = filtered]
                q == filtered[1]
                dq == IF IsSet(s.q_prev)
                      THEN NDiv(NSub(q, s.q_prev), Scalar(s.dt))
                      ELSE ZerosLike(q)
            IN  IF IsErr(dq) THEN [s |-> s4, raised |-> TRUE]
                ELSE [s |-> [StoreQPrev(s4, q) EXCEPT !.dq = dq,
                                       !.n_steps = s.n_steps + 1],
                      raised |-> FALSE]

-----------------------------------------------------------------------------
(* affctrl.py: class Feedback, FeedbackPID, FeedbackPIDF                   *)

\* scheme_class(**kwargs) of load_feedback_scheme: a new scheme object with
\* the gains of the configuration and no accumulated error yet
Feedback_init(cls, with_press_gain) ==
    [cls        |-> cls,
     kP         |-> Scalar(RInt(ConfKP)),
     kD         |-> Scalar(RInt(ConfKD)),
     kI         |-> Scalar(RInt(ConfKI)),
     stiff      |-> Scalar(RInt(ConfStiff)),
     press_gain |-> IF with_press_gain THEN Scalar(RInt(ConfPressGain)) ELSE Unset,
     accum_qerr |-> Unset]

\* positional_feedback in a variant that keeps the error of the last call
\* only
positional_feedback_LastErrorOnly(fb, t, q, dq, qdes, dqdes) ==
    LET qerr == NSub(qdes, q)
    IN  [fb |-> [fb EXCEPT !.accum_qerr = qerr],
         e  |-> NAdd(NAdd(NMul(fb.kP, qerr), NMul(fb.kD, NSub(dqdes, dq))),
                     NMul(fb.kI, qerr))]

\* Feedback.positional_feedback: the scheme after the call and its result
positional_feedback(fb, t, q, dq, qdes, dqdes) ==
    LET qerr == NSub(qdes, q)
        acc == IF IsSet(fb.accum_qerr) THEN NAdd(fb.accum_qerr, qerr) ELSE qerr
    IN  [fb |-> [fb EXCEPT !.accum_qerr = acc],
         e  |-> NAdd(NAdd(NMul(fb.kP, qerr), NMul(fb.kD, NSub(dqdes, dq))),
                     NMul(fb.kI, acc))]

\* FeedbackPID.update(self, t, q, pa, pb, dq, qdes, dqdes)
FeedbackPID_update(fb, t, q, pa, pb, dq, qdes, dqdes) ==
    LET r == positional_feedback(fb, t, q, dq, qdes, dqdes)
    IN  [fb |-> r.fb, u1 |-> NAdd(fb.stiff, r.e), u2 |-> NSub(fb.stiff, r.e)]

\* FeedbackPIDF.update(self, t, q, pa, pb, dq, qdes, dqdes)
FeedbackPIDF_update(fb, t, q, pa, pb, dq, qdes, dqdes) ==
    LET d == IF IsSet(fb.press_gain) THEN NMul(fb.press_gain, NSub(pa, pb))
             ELSE NSub(pa, pb)
        r == positional_feedback(fb, t, q, dq, qdes, dqdes)
    IN  [fb |-> r.fb,
         u1 |-> NSub(NAdd(fb.stiff, r.e), d),
         u2 |-> NAdd(NSub(fb.stiff, r.e), d)]

\* self.feedback_scheme.update(a1, .., a7): the method of the scheme's class,
\* its parameters bound by position
Feedback_update(fb, a1, a2, a3, a4, a5, a6, a7) ==
    IF fb.cls = "PID" THEN FeedbackPID_update(fb, a1, a2, a3, a4, a5, a6, a7)
    ELSE FeedbackPIDF_update(fb, a1, a2, a3, a4, a5, a6, a7)

-----------------------------------------------------------------------------
(* affctrl.py: class AffCtrl                                               *)

DEFAULT_INACTIVE_PRESSURE == 0

\* the pressure argument None of set/add_inactive_joints
NoPressure == -1

\* AffCtrl.__init__ followed by load_feedback_scheme("pid"): no inactive
\* joint, no input range
AffCtrl_init ==
    [dof             |-> DOF,
     inactive_joints |-> <<>>,
     input_range     |-> <<>>,
     feedback_scheme |-> Feedback_init("PID", FALSE)]

\* the pattern argument: a Python int, or a str given as the sequence of
\* its characters
PyInt(n) == [type |-> "int", val |-> n]
PyStr(chars) == [type |-> "str", val |-> chars]

\* str.split(sep) for a one-character separator: the pieces between the
\* separators, empty pieces included
RECURSIVE split(_, _)
split(str, sep) ==
    IF \A i \in 1..Len(str) : str[i] # sep THEN <<str>>
    ELSE LET k == CHOOSE i \in 1..Len(str) :
                      str[i] = sep /\ \A j \in 1..(i - 1) : str[j] # sep
         IN  <<SubSeq(str, 1, k - 1)>> \o split(SubSeq(str, k + 1, Len(str)), sep)

\* the decimal digits and their values
Digits == <<"0", "1", "2", "3", "4", "5", "6", "7", "8", "9">>
IsDigit(ch) == \E d \in 1..10 : Digits[d] = ch
DigitValue(ch) == (CHOOSE d \in 1..10 : Digits[d] = ch) - 1

\* int(str) raises ValueError unless str is a numeral; of the characters
\* patterns are made of here, only the digits can form one
IntRaises(str) == str = <<>> \/ \E i \in 1..Len(str) : ~IsDigit(str[i])

\* int(str) of a string of digits
RECURSIVE IntOf(_)
IntOf(str) ==
    IF str = <<>> THEN 0
    ELSE 10 * IntOf(SubSeq(str, 1, Len(str) - 1)) + DigitValue(str[Len(str)])

\* list(range(beg, end))
PyRange(beg, end) == [i \in 1..(IF end > beg THEN end - beg ELSE 0) |-> beg + i - 1]

\* AffCtrl._expand_as_index_range: pattern holds a "-", so split gives two
\* pieces or more, of which the first two are read
expand_as_index_range_ExclusiveEnd(c, pattern) ==
    LET range == split(pattern, "-")
        beg == IF IntRaises(range[1]) THEN 0 ELSE IntOf(range[1])
        end == IF IntRaises(range[2]) THEN c.dof ELSE IntOf(range[2])
    IN  PyRange(beg, end)

expand_as_index_range(c, pattern) ==
    LET range == split(pattern, "-")
        beg == IF IntRaises(range[1]) THEN 0 ELSE IntOf(range[1])
        end == IF IntRaises(range[2]) THEN c.dof ELSE IntOf(range[2]) + 1
    IN  PyRange(beg, end)

\* the loop of AffCtrl._expand_as_index over the pieces of the pattern; the
\* int(p) of a piece without "-" is not guarded
RECURSIVE expand_pieces(_, _)
expand_pieces(c, pieces) ==
    IF pieces = <<>> THEN [raised |-> FALSE, index |-> <<>>]
    ELSE LET p == Head(pieces)
             rest == expand_pieces(c, Tail(pieces))
         IN  IF \E i \in 1..Len(p) : p[i] = "-"
             THEN [rest EXCEPT !.index = expand_as_index_range(c, p) \o @]
             ELSE IF IntRaises(p) THEN [raised |-> TRUE, index |-> <<>>]
             ELSE [rest EXCEPT !.index = <<IntOf(p)>> \o @]

\* AffCtrl._expand_as_index: ValueError (raised) or the list of indices
expand_as_index(c, pattern) ==
    LET r == expand_pieces(c, split(pattern, ","))
    IN  IF r.raised THEN [raised |-> TRUE, index |-> <<>>] ELSE r

\* AffCtrl._make_inactive_joints_array: one row (index, pressure, pressure)
\* for each index, or the ValueError of _expand_as_index
make_inactive_joints_array(c, pattern, pressure) ==
    LET p == IF pressure = NoPressure THEN DEFAULT_INACTIVE_PRESSURE ELSE pressure
        r == IF pattern.type = "str" THEN expand_as_index(c, pattern.val)
             ELSE [raised |-> FALSE, index |-> <<pattern.val>>]
    IN  [raised |-> r.raised,
         arr    |-> [i \in 1..Len(r.index) |-> <<r.index[i], p, p>>]]

\* AffCtrl.set_inactive_joints: nothing is assigned when the array could not
\* be made
set_inactive_joints(c, pattern, pressure) ==
    LET r == make_inactive_joints_array(c, pattern, pressure)
    IN  IF r.raised THEN c ELSE [c EXCEPT !.inactive_joints = r.arr]

\* AffCtrl.add_inactive_joints
add_inactive_joints(c, pattern, pressure) ==
    LET r == make_inactive_joints_array(c, pattern, pressure)
    IN  IF r.raised THEN c ELSE [c EXCEPT !.inactive_joints = @ \o r.arr]

\* a token n, a-b, a-, -b or -: digits around at most one "-", not empty
WellFormedToken(tok) ==
    /\ tok # <<>>
    /\ \A i \in 1..Len(tok) : IsDigit(tok[i]) \/ tok[i] = "-"
    /\ \A i, j \in 1..Len(tok) : (tok[i] = "-" /\ tok[j] = "-") => i = j

\* the indices a well-formed token stands for on a robot with dof joints
TokenIndices(tok, dof) ==
    IF \A i \in 1..Len(tok) : tok[i] # "-" THEN <<IntOf(tok)>>
    ELSE LET k == CHOOSE i \in 1..Len(tok) : tok[i] = "-"
             a == IF k = 1 THEN 0 ELSE IntOf(SubSeq(tok, 1, k - 1))
             b == IF k = Len(tok) THEN dof - 1 ELSE IntOf(SubSeq(tok, k + 1, Len(tok)))
         IN  IF a > b THEN <<>> ELSE [i \in 1..(b - a + 1) |-> a + i - 1]

\* the in-order concatenation of the indices of the tokens
RECURSIVE ConcatIndices(_, _)
ConcatIndices(toks, dof) ==
    IF toks = <<>> THEN <<>>
    ELSE TokenIndices(Head(toks), dof) \o ConcatIndices(Tail(toks), dof)

\* the elements of a set of integers in increasing order
RECURSIVE Ascending(_)
Ascending(S) ==
    IF S = {} THEN <<>>
    ELSE LET m == CHOOSE x \in S : \A y \in S : x <= y
         IN  <<m>> \o Ascending(S \ {m})

\* the joints a pattern matches, as the pattern resolution is specified: an
\* int matches itself, a string what its well-formed tokens stand for, and
\* a token that cannot be read matches nothing
matched_joints(c, pattern) ==
    LET toks == IF pattern.type = "str" THEN split(pattern.val, ",") ELSE <<>>
        all == IF pattern.type = "str"
               THEN UNION {IF WellFormedToken(toks[n])
                           THEN {TokenIndices(toks[n], c.dof)[k] :
                                     k \in 1..Len(TokenIndices(toks[n], c.dof))}
                           ELSE {} : n \in 1..Len(toks)}
               ELSE {pattern.val}
    IN  all \cap (0..(c.dof - 1))

\* AffCtrl.set_active_joints, which this version of affctrl.py lacks: every
\* joint the pattern does not match becomes inactive with the pressure given
set_active_joints_Matched(c, pattern, pressure) ==
    LET p == IF pressure = NoPressure THEN DEFAULT_INACTIVE_PRESSURE ELSE pressure
        index == Ascending(matched_joints(c, pattern))
    IN  [c EXCEPT !.inactive_joints = [i \in 1..Len(index) |-> <<index[i], p, p>>]]

set_active_joints(c, pattern, pressure) ==
    LET p == IF pressure = NoPressure THEN DEFAULT_INACTIVE_PRESSURE ELSE pressure
        index == Ascending((0..(c.dof - 1)) \ matched_joints(c, pattern))
    IN  [c EXCEPT !.inactive_joints = [i \in 1..Len(index) |-> <<index[i], p, p>>]]

\* AffCtrl.inactive_joints_index: the indices listed in the table
inactive_joints_index(c) == [i \in 1..Len(c.inactive_joints) |-> c.inactive_joints[i][1]]

\* AffCtrl.active_joints_index: the joints the table does not list
active_joints_index(c) ==
    Ascending({j \in 0..(c.dof - 1) :
                   \A i \in 1..Len(c.inactive_joints) : c.inactive_joints[i][1] # j})

\* AffCtrl.reset_inactive_joints
reset_inactive_joints(c) == [c EXCEPT !.inactive_joints = <<>>]

\* AffCtrl.set_input_range
set_input_range(c, lo, hi) == [c EXCEPT !.input_range = <<lo, hi>>]

\* AffCtrl.load_feedback_scheme
load_feedback_scheme(c, cls, with_press_gain) ==
    [c EXCEPT !.feedback_scheme = Feedback_init(cls, with_press_gain)]

\* np.put(u, mask, values) with mode='raise': the rows are written in order,
\* a negative index counts from the end, and an index outside [-n, n) raises
\* IndexError (ShapeError here)
RECURSIVE np_put(_, _, _)
np_put(u, rows, col) ==
    IF rows = <<>> \/ IsErr(u) THEN u
    ELSE LET i == Head(rows)[1]
             n == Len(u.v)
         IN  IF i < -n \/ i >= n THEN ShapeError
             ELSE np_put(Arr([u.v EXCEPT ![(IF i < 0 THEN i + n ELSE i) + 1] =
                                           RInt(Head(rows)[col])]),
                         Tail(rows), col)

\* AffCtrl.mask
AffCtrl_mask(c, u1, u2) ==
    LET m1 == np_put(u1, c.inactive_joints, 2)
    IN  IF IsErr(m1) THEN <<ShapeError, ShapeError>>
        ELSE <<m1, np_put(u2, c.inactive_joints, 3)>>

\* np.clip(x, lo, hi) of one element
Clip_LowerOnly(x, lo, hi) == IF RLess(x, lo) THEN lo ELSE x

Clip(x, lo, hi) == IF RLess(x, lo) THEN lo ELSE IF RLess(hi, x) THEN hi ELSE x

\* AffCtrl.scale of one command vector
ScaleVec(c, u) ==
    IF IsErr(u) \/ c.input_range = <<>> THEN u
    ELSE LET lo == RInt(c.input_range[1])
             hi == RInt(c.input_range[2])
             scale_gain == RDiv(RInt(255), RSub(hi, lo))
         IN  Arr([i \in 1..Len(u.v) |->
                     RMul(scale_gain, RSub(Clip(u.v[i], lo, hi), lo))])

\* AffCtrl.scale
AffCtrl_scale(c, u1, u2) == <<ScaleVec(c, u1), ScaleVec(c, u2)>>

\* AffCtrl.update: the controller after the call, what the scheme returned
\* and what the call returns (a pair of ShapeError when it raises)
AffCtrl_update(c, t, q, dq, pa, pb, qdes, dqdes) ==
    LET r == Feedback_update(c.feedback_scheme, t, q, dq, pa, pb, qdes, dqdes)
        m == AffCtrl_mask(c, r.u1, r.u2)
    IN  [c      |-> [c EXCEPT !.feedback_scheme = r.fb],
         scheme |-> <<r.u1, r.u2>>,
         out    |-> AffCtrl_scale(c, m[1], m[2])]

-----------------------------------------------------------------------------
(* The filter specification: one Filter, constructed with any window size  *)
(* (or the default), fed scalar samples.                                   *)

NPointsChoices == (1..MaxNPoints) \cup {DEFAULT_N_POINTS}

Samples == {Scalar(RInt(i)) : i \in 0..MaxSample}

\* no set/add_inactive_joints call has been made
NoTableCall == [op |-> "none", pattern |-> PyInt(0), pressure |-> NoPressure,
                raised |-> FALSE]

CtrlIdle ==
    /\ actrl = AffCtrl_init
    /\ cTable = NoTableCall
    /\ cArgs = <<>>
    /\ cScheme = <<>>
    /\ cOut = <<>>
    /\ cCalls = 0

StateIdle ==
    /\ astate = AffState_init
    /\ aFrame = <<>>
    /\ aRaised = FALSE
    /\ aDone = <<>>
    /\ aCalls = 0

FilterIdle ==
    /\ filt = Filter_init(DEFAULT_N_POINTS)
    /\ filtOut = Unset
    /\ filtHist = <<>>

\* AffStateThread() and AffCtrlThread(astate) constructed, nothing called:
\* the command socket is created by the constructor, the sensory socket
\* is not
ThreadIdleWith(output) ==
    /\ mainPc = "ready"
    /\ sensPc = "s_none"
    /\ ctrlPc = "c_none"
    /\ stateLock = "free"
    /\ ctrlLock = "free"
    /\ sensStopped = FALSE
    /\ ctrlStopped = FALSE
    /\ idledEvent = FALSE
    /\ est = [data |-> 0, filt |-> 0, dq |-> 0, n_steps |-> 0, idled |-> FALSE]
    /\ sensSock = "none"
    /\ cmdSock = "open"
    /\ pending = 0
    /\ arrived = 0
    /\ idleN = 0
    /\ got = [raw |-> 0, q |-> 0, dq |-> 0, pa |-> 0, pb |-> 0]
    /\ ctrlIter = 0
    /\ ctrlErr = "none"
    /\ sendsAfterStop = 0
    /\ sensWarned = FALSE
    /\ waitCall = [timeout |-> "none", result |-> "none"]
    /\ hasLogger = output
    /\ logStored = 0
    /\ logDumped = 0
    /\ ctrlJoined = FALSE
    /\ schemeRef = FALSE
    /\ gains = 0

\* an AffCtrlThread constructed without an output file has no logger
ThreadIdle == ThreadIdleWith(FALSE)

-----------------------------------------------------------------------------
(* The clock and the timing utilities (rate.py, timer.py).  Time is     *)
(* counted in ticks.  timestamp() is time.time() and Timer reads           *)
(* time.time_ns(): both are the wall clock, which the system may step      *)
(* backward between two reads.                                             *)

\* Rate(frequency): the constructor sets the cycle time and calls start()
Rate_start(r, t) == [r EXCEPT !.start_timer = t, !.start = t]

Rate_init(t) ==
    Rate_start([start_timer |-> 0, start |-> 0, actual_cycle_time |-> 0], t)

Rate_now(r, t) == t - r.start_timer

Rate_reset(r, t) == [r EXCEPT !.start = t]

\* the anchor sleep() leaves when it returns without sleeping
Rate_overrun_start(expected_end, actual_end) ==
    IF actual_end > expected_end + Period THEN actual_end ELSE expected_end

\* sleep() at clock reading t: the object it leaves and the time it sleeps
Rate_sleep(r, t) ==
    LET actual_end == t
        expected_end == IF actual_end < r.start
                        THEN actual_end + Period
                        ELSE r.start + Period
        sleep_time == expected_end - actual_end
        start == IF sleep_time <= 0
                 THEN Rate_overrun_start(expected_end, actual_end)
                 ELSE expected_end
    IN  [rate |-> [r EXCEPT !.actual_cycle_time = actual_end - r.start,
                            !.start = start],
         slept |-> IF sleep_time <= 0 THEN 0 ELSE sleep_time]

\* Timer(period=...): no _time_last_blocked_ns attribute before start()
Timer_init ==
    [period_ns |-> Period, time_started_ns |-> 0,
     started |-> FALSE, time_last_blocked_ns |-> 0]

Timer_start(tm, t) ==
    [tm EXCEPT !.time_started_ns = t, !.time_last_blocked_ns = t,
               !.started = TRUE]

Timer_reset(tm, t) == Timer_start(tm, t)

Timer_elapsed_time(tm, t) == t - tm.time_started_ns

\* block() warns instead of sleeping when no time is left in the period
Timer_warns_OnlyPastPeriod(time_to_sleep) == time_to_sleep < 0

Timer_warns(time_to_sleep) == ~(time_to_sleep > 0)

\* block() in a variant that measures the time used from start(), not from
\* the last return
Timer_block_SinceStart(tm, t) ==
    LET time_to_sleep == tm.period_ns - (t - tm.time_started_ns)
    IN  IF ~tm.started
        THEN [raised |-> TRUE, slept |-> 0, warned |-> 0]
        ELSE IF time_to_sleep > 0
        THEN [raised |-> FALSE, slept |-> time_to_sleep, warned |-> 0]
        ELSE [raised |-> FALSE, slept |-> 0, warned |-> 1]

\* block() at clock reading t: what it does before it re-anchors
Timer_block(tm, t) ==
    LET elapsed_since_last_blocked == t - tm.time_last_blocked_ns
        time_to_sleep == tm.period_ns - elapsed_since_last_blocked
    IN  IF ~tm.started
        THEN [raised |-> TRUE, slept |-> 0, warned |-> 0]
        ELSE IF Timer_warns(time_to_sleep)
        THEN [raised |-> FALSE, slept |-> 0, warned |-> 1]
        ELSE [raised |-> FALSE, slept |-> time_to_sleep, warned |-> 0]

\* no call made yet on the Rate or the Timer
NoTimeCall ==
    [op |-> "none", slept |-> 0, warned |-> 0, raised |-> FALSE,
     read |-> 0, hasRead |-> FALSE]

\* the last call, and the last read of the elapsed time since start()
TimeCall(op) ==
    [tCall EXCEPT !.op = op, !.slept = 0, !.warned = 0, !.raised = FALSE]

TimeRead(call, value) == [call EXCEPT !.read = value, !.hasRead = TRUE]

TimeRestart(call) == [call EXCEPT !.read = 0, !.hasRead = FALSE]

\* an optional float argument: None, or the value x
None == [given |-> FALSE, val |-> RInt(0)]
Some(x) == [given |-> TRUE, val |-> x]

\* PeriodicRunner(): neither _dt nor _freq is assigned
Runner_init ==
    [has_dt |-> FALSE, dt |-> RInt(0), has_freq |-> FALSE, freq |-> RInt(0)]

\* set_frequency(dt, freq): the object it leaves and the exception it
\* raises; 1.0 / x raises ZeroDivisionError after x has been stored
set_frequency(r, dt, freq) ==
    IF dt.given /\ freq.given
    THEN [runner |-> r, raised |-> "ValueError"]
    ELSE IF dt.given
    THEN LET r1 == [r EXCEPT !.has_dt = TRUE, !.dt = dt.val]
         IN  IF dt.val = RInt(0)
             THEN [runner |-> r1, raised |-> "ZeroDivisionError"]
             ELSE [runner |-> [r1 EXCEPT !.has_freq = TRUE,
                                         !.freq = RDiv(RInt(1), dt.val)],
                   raised |-> "none"]
    ELSE IF freq.given
    THEN LET r1 == [r EXCEPT !.has_freq = TRUE, !.freq = freq.val]
         IN  IF freq.val = RInt(0)
             THEN [runner |-> r1, raised |-> "ZeroDivisionError"]
             ELSE [runner |-> [r1 EXCEPT !.has_dt = TRUE,
                                         !.dt = RDiv(RInt(1), freq.val)],
                   raised |-> "none"]
    ELSE [runner |-> r, raised |-> "none"]

NoRunnerCall ==
    [op |-> "none", dt |-> None, freq |-> None, raised |-> "none",
     before |-> Runner_init]

RunnerIdle ==
    /\ runner = Runner_init
    /\ rCall = NoRunnerCall

FunIdle ==
    /\ fArgs = <<>>
    /\ fOut = <<>>

\* the machine at an arbitrary moment, a Rate and a Timer just constructed
UtilIdle ==
    /\ clock = ClockOrigin
    /\ rate = Rate_init(ClockOrigin)
    /\ timer = Timer_init
    /\ tCall = NoTimeCall
    /\ RunnerIdle
    /\ FunIdle

\* time passes
ClockTick ==
    /\ clock < MaxClock
    /\ clock' = clock + 1
    /\ UNCHANGED <<rate, timer, tCall, objectVars, threadVars, runnerVars,
                   funVars>>

\* the wall clock is set back
ClockStepBack(k) ==
    /\ clock - k >= 0
    /\ clock' = clock - k
    /\ UNCHANGED <<rate, timer, tCall, objectVars, threadVars, runnerVars,
                   funVars>>

ClockRun == ClockTick \/ \E k \in 1..MaxStepBack : ClockStepBack(k)

RateStart ==
    /\ rate' = Rate_start(rate, clock)
    /\ tCall' = TimeRestart(TimeCall("start"))
    /\ UNCHANGED <<clock, timer, objectVars, threadVars, runnerVars,
                   funVars>>

RateNow ==
    /\ tCall' = TimeRead(TimeCall("now"), Rate_now(rate, clock))
    /\ UNCHANGED <<clock, rate, timer, objectVars, threadVars, runnerVars,
                   funVars>>

RateReset ==
    /\ rate' = Rate_reset(rate, clock)
    /\ tCall' = TimeCall("reset")
    /\ UNCHANGED <<clock, timer, objectVars, threadVars, runnerVars,
                   funVars>>

\* time.sleep(sleep_time) returns when sleep_time has passed
RateSleep ==
    LET res == Rate_sleep(rate, clock)
    IN  /\ clock + res.slept <= MaxClock
        /\ rate' = res.rate
        /\ clock' = clock + res.slept
        /\ tCall' = [TimeCall("sleep") EXCEPT !.slept = res.slept]
        /\ UNCHANGED <<timer, objectVars, threadVars, runnerVars,
                   funVars>>

UtilInit ==
    /\ UtilIdle
    /\ FilterIdle
    /\ StateIdle
    /\ CtrlIdle
    /\ ThreadIdle

\* a loop paced by Rate.sleep()
RateNext == ClockRun \/ RateStart \/ RateReset \/ RateSleep

SpecRate == UtilInit /\ [][RateNext]_vars

\* a program that reads Rate.now()
NowNext == ClockRun \/ RateStart \/ RateNow \/ RateReset

SpecNow == UtilInit /\ [][NowNext]_vars

TimerStart ==
    /\ timer' = Timer_start(timer, clock)
    /\ tCall' = TimeRestart(TimeCall("start"))
    /\ UNCHANGED <<clock, rate, objectVars, threadVars, runnerVars,
                   funVars>>

TimerReset ==
    /\ timer' = Timer_reset(timer, clock)
    /\ tCall' = TimeRestart(TimeCall("reset"))
    /\ UNCHANGED <<clock, rate, objectVars, threadVars, runnerVars,
                   funVars>>

TimerElapsedTime ==
    /\ tCall' = TimeRead(TimeCall("elapsed_time"),
                         Timer_elapsed_time(timer, clock))
    /\ UNCHANGED <<clock, rate, timer, objectVars, threadVars, runnerVars,
                   funVars>>

\* block() sleeps or warns, then stores the clock reading it takes next
TimerBlock ==
    LET res == Timer_block(timer, clock)
    IN  /\ clock + res.slept <= MaxClock
        /\ clock' = clock + res.slept
        /\ timer' = IF res.raised THEN timer
                    ELSE [timer EXCEPT !.time_last_blocked_ns = clock']
        /\ tCall' = [TimeCall("block")
                        EXCEPT !.slept = res.slept, !.warned = res.warned,
                               !.raised = res.raised]
        /\ UNCHANGED <<rate, objectVars, threadVars, runnerVars,
                   funVars>>

\* a loop paced by Timer.block()
TimerNext == ClockRun \/ TimerStart \/ TimerBlock

SpecTimer == UtilInit /\ [][TimerNext]_vars

\* a program that reads Timer.elapsed_time()
ElapsedNext == ClockRun \/ TimerStart \/ TimerElapsedTime \/ TimerReset

SpecElapsed == UtilInit /\ [][ElapsedNext]_vars

\* two loops, one paced by Timer.block() and one by Rate.sleep(), on a clock
\* that only goes forward; reset() is not called.  fOut counts the returns
\* of block() and of sleep() since the last start() and keeps the clock
\* reading of the last return of each.
NoReturnYet == [blocks |-> 0, block_at |-> 0, sleeps |-> 0, sleep_at |-> 0]

Returns == IF fOut = <<>> THEN NoReturnYet ELSE fOut

PacedTimerStart ==
    /\ timer' = Timer_start(timer, clock)
    /\ fOut' = [Returns EXCEPT !.blocks = 0, !.block_at = clock]
    /\ UNCHANGED <<clock, rate, tCall, objectVars, threadVars, runnerVars,
                   fArgs>>

PacedTimerBlock ==
    LET res == Timer_block(timer, clock)
    IN  /\ ~res.raised
        /\ clock + res.slept <= MaxClock
        /\ clock' = clock + res.slept
        /\ timer' = [timer EXCEPT !.time_last_blocked_ns = clock']
        /\ fOut' = [Returns EXCEPT !.blocks = @ + 1, !.block_at = clock']
        /\ UNCHANGED <<rate, tCall, objectVars, threadVars, runnerVars, fArgs>>

PacedRateStart ==
    /\ rate' = Rate_start(rate, clock)
    /\ fOut' = [Returns EXCEPT !.sleeps = 0, !.sleep_at = clock]
    /\ UNCHANGED <<clock, timer, tCall, objectVars, threadVars, runnerVars,
                   fArgs>>

PacedRateSleep ==
    LET res == Rate_sleep(rate, clock)
    IN  /\ fOut # <<>>
        /\ clock + res.slept <= MaxClock
        /\ rate' = res.rate
        /\ clock' = clock + res.slept
        /\ fOut' = [Returns EXCEPT !.sleeps = @ + 1, !.sleep_at = clock']
        /\ UNCHANGED <<timer, tCall, objectVars, threadVars, runnerVars, fArgs>>

PacedNext ==
    \/ ClockTick
    \/ PacedTimerStart
    \/ PacedTimerBlock
    \/ PacedRateStart
    \/ PacedRateSleep

SpecPaced == UtilInit /\ [][PacedNext]_vars

\* the values given as dt or freq
RunnerValues == {Rat(n, d) : n \in 0..MaxRunnerVal, d \in 1..MaxRunnerVal}
RunnerArgs == {None} \cup {Some(x) : x \in RunnerValues}

\* runner.set_frequency(dt, freq)
RunnerSetFrequency(dt, freq) ==
    LET res == set_frequency(runner, dt, freq)
    IN  /\ runner' = res.runner
        /\ rCall' = [op |-> "set_frequency", dt |-> dt, freq |-> freq,
                     raised |-> res.raised, before |-> runner]
        /\ UNCHANGED <<objectVars, threadVars, timeVars, funVars>>

\* runner = PeriodicRunner(dt, freq): the name is bound when the
\* constructor returns
RunnerConstruct(dt, freq) ==
    LET res == set_frequency(Runner_init, dt, freq)
    IN  /\ runner' = IF res.raised = "none" THEN res.runner ELSE runner
        /\ rCall' = [op |-> "init", dt |-> dt, freq |-> freq,
                     raised |-> res.raised, before |-> runner]
        /\ UNCHANGED <<objectVars, threadVars, timeVars, funVars>>

RunnerNext ==
    \/ \E dt, freq \in RunnerArgs : RunnerSetFrequency(dt, freq)
    \/ \E dt, freq \in RunnerArgs : RunnerConstruct(dt, freq)

SpecRunner == UtilInit /\ [][RunnerNext]_vars

(* ---- the pacing of the control loop ---- *)

\* int(period * 1e9) of a period in seconds
NsOf(period) == (period[1] * NsPerSecond) \div period[2]

\* Timer.set_rate (and Timer(rate=...)): the period is derived from the rate
Timer_set_rate(tm, r) == [tm EXCEPT !.period_ns = NsOf(RDiv(RInt(1), r))]

\* the frequencies and periods given to the control thread
PaceFreqs == {RInt(AFFCTRL_DEFAULT_FREQ), RInt(50), RInt(100)}
PaceDts == {Rat(1, 25), Rat(1, 40)}

\* AffCtrlThread(config, dt, freq): the controller takes the frequency
\* given (the default one when none is), the timer is made at its rate
PaceConstruct(dt, freq) ==
    /\ ~runner.has_freq
    /\ ~(dt.given /\ freq.given)
    /\ LET given == set_frequency(Runner_init, dt, freq).runner
           made == IF given.has_freq THEN given
                   ELSE set_frequency(given, None,
                                      Some(RInt(AFFCTRL_DEFAULT_FREQ))).runner
       IN  /\ runner' = made
           /\ timer' = Timer_set_rate(Timer_init, made.freq)
    /\ UNCHANGED <<objectVars, threadVars, clock, rate, tCall, rCall, funVars>>

\* thread.freq = freq and thread.dt = dt: with self._lock, the setter of
\* the controller; the timer is not reached
PaceSetFrequency(dt, freq) ==
    /\ runner.has_freq
    /\ dt.given # freq.given
    /\ runner' = set_frequency(runner, dt, freq).runner
    /\ UNCHANGED <<objectVars, threadVars, timeVars, rCall, funVars>>

\* run() begins: self._timer.start()
PaceStart ==
    /\ runner.has_freq
    /\ ~timer.started
    /\ timer' = Timer_start(timer, clock)
    /\ UNCHANGED <<objectVars, threadVars, clock, rate, tCall, runnerVars,
                   funVars>>

\* timer.block() of a control cycle: the period it waits for since the last
\* return is kept in fOut, with the number of the cycle
PaceBlock ==
    /\ timer.started
    /\ LET n == IF fOut = <<>> THEN 0 ELSE fOut.n
       IN  /\ n < MaxPaceCycles
           /\ fOut' = [period_ns |-> timer.period_ns, n |-> n + 1]
    /\ UNCHANGED <<objectVars, threadVars, timeVars, runnerVars, fArgs>>

PaceNext ==
    \/ \E dt \in {None} \cup {Some(x) : x \in PaceDts} : PaceConstruct(dt, None)
    \/ \E freq \in {Some(x) : x \in PaceFreqs} : PaceConstruct(None, freq)
    \/ \E freq \in {Some(x) : x \in PaceFreqs} : PaceSetFrequency(None, freq)
    \/ \E dt \in {Some(x) : x \in PaceDts} : PaceSetFrequency(dt, None)
    \/ PaceStart
    \/ PaceBlock

SpecPace == UtilInit /\ [][PaceNext]_vars

-----------------------------------------------------------------------------
(* affcomm.py: zip_arrays and unzip_array on lists of numbers.  A 2-d      *)
(* array is the sequence of its rows.                                      *)

\* np.array(array).reshape((nrow, ncol))
np_reshape(array, nrow, ncol) ==
    [r \in 1..nrow |-> [c \in 1..ncol |-> array[(r - 1) * ncol + c]]]

\* arr.T of an array of ncol columns
np_transpose(arr, ncol) ==
    [c \in 1..ncol |-> [r \in 1..Len(arr) |-> arr[r][c]]]

\* arr.flatten(): row after row
RECURSIVE np_flatten(_)
np_flatten(arr) ==
    IF arr = <<>> THEN <<>> ELSE Head(arr) \o np_flatten(Tail(arr))

\* np.stack(arrays, axis=0): one row per array
np_stack_Axis0(arrays) == arrays

\* np.stack(arrays, axis=1): row r holds element r of every array
np_stack(arrays) ==
    [r \in 1..Len(arrays[1]) |-> [c \in 1..Len(arrays) |-> arrays[c][r]]]

\* zip_arrays(*arrays): np.stack refuses arrays of different lengths
zip_arrays(arrays) ==
    IF \E c \in 1..Len(arrays) : Len(arrays[c]) # Len(arrays[1])
    THEN [raised |-> TRUE, out |-> <<>>]
    ELSE [raised |-> FALSE, out |-> np_flatten(np_stack(arrays))]

\* unzip_array(array, n): reshape refuses a length that n does not divide
unzip_array(array, n) ==
    LET nrow == Len(array) \div n
    IN  IF nrow * n # Len(array) THEN [raised |-> TRUE, out |-> <<>>]
        ELSE [raised |-> FALSE,
              out |-> np_transpose(np_reshape(array, nrow, n), n)]

\* the list start + 1, ..., start + len
Ramp(start, len) == [i \in 1..len |-> start + i]

\* 1 to 3 lists, all of one length, or the last of them one longer
ZipInputs ==
    UNION {{[c \in 1..n |-> Ramp(starts[c],
                                 IF c = n THEN len + extra ELSE len)] :
               starts \in [1..n -> 0..MaxZipVal],
               len \in 0..DOF, extra \in {0, 1}} : n \in 1..3}

ZipCall(arrays) ==
    /\ fArgs' = [op |-> "zip", arrays |-> arrays, n |-> Len(arrays)]
    /\ fOut' = zip_arrays(arrays)
    /\ UNCHANGED <<objectVars, threadVars, timeVars, runnerVars>>

UnzipCall(array, n) ==
    /\ fArgs' = [op |-> "unzip", arrays |-> <<array>>, n |-> n]
    /\ fOut' = unzip_array(array, n)
    /\ UNCHANGED <<objectVars, threadVars, timeVars, runnerVars>>

ZipNext ==
    \/ \E arrays \in ZipInputs : ZipCall(arrays)
    \/ \E start \in 0..MaxZipVal, len \in 0..(3 * DOF), n \in 1..3 :
           UnzipCall(Ramp(start, len), n)

SpecZip == UtilInit /\ [][ZipNext]_vars

-----------------------------------------------------------------------------
(* ptp.py: the point-to-point profiles of a scalar joint.  q0, qF, T, t0,  *)
(* vmax, tb and t are Python numbers; every positive number of the model   *)
(* is far above the 1e-12 threshold of set_vmax and set_tb.                *)

RLeq(x, y) == ~RLess(y, x)

\* x < 1e-12
BelowThreshold(x) == RLeq(x, RInt(0))

\* Profile.__init__, and the coefficients a subclass stores
Profile_init(name, q0, qF, T, t0) ==
    [name |-> name, q0 |-> q0, qF |-> qF, T |-> T, t0 |-> t0,
     vM |-> RInt(0), tb |-> RInt(0), a |-> RInt(0), raised |-> "none"]

\* TrapezoidalVelocityProfile.set_vmax; a Python number divided by the
\* number zero raises ZeroDivisionError
set_vmax(p, vmax) ==
    IF p.qF = p.q0 THEN [p EXCEPT !.raised = "ZeroDivisionError"]
    ELSE
    LET vM0 == RAbs(RDiv(vmax, RSub(p.qF, p.q0)))
        vM1 == IF BelowThreshold(vM0) THEN RDiv(RInt(3), RMul(RInt(2), p.T))
               ELSE vM0
        vM == IF RLess(RDiv(RInt(2), p.T), vM1) THEN RDiv(RInt(2), p.T)
              ELSE vM1
        tb == RSub(p.T, RDiv(RInt(1), vM))
    IN  IF RLeq(vM1, RDiv(RInt(1), p.T))
        THEN [p EXCEPT !.vM = vM1, !.raised = "ValueError"]
        ELSE [p EXCEPT !.vM = vM, !.tb = tb, !.a = RDiv(vM, tb)]

\* TrapezoidalVelocityProfile.set_tb
set_tb(p, tb) ==
    LET tb1 == IF BelowThreshold(tb) THEN RDiv(p.T, RInt(3)) ELSE tb
        half_T == RDiv(p.T, RInt(2))
        Tb == IF RLess(half_T, tb1) THEN half_T ELSE tb1
        vM == RDiv(RInt(1), RSub(p.T, Tb))
    IN  [p EXCEPT !.tb = Tb, !.vM = vM, !.a = RDiv(vM, Tb)]

\* TrapezoidalVelocityProfile.__init__
TrapezoidalVelocityProfile(q0, qF, T, t0, vmax, tb) ==
    LET p == Profile_init("tra", q0, qF, T, t0)
    IN  IF vmax.given THEN set_vmax(p, vmax.val)
        ELSE IF tb.given THEN set_tb(p, tb.val)
        ELSE set_vmax(p, RInt(0))

RSq(x) == RMul(x, x)

\* TriangularVelocityProfile.s and ds at t_rel = t - t0
Tri_s(p, t_rel) ==
    LET s_coeff == RDiv(RInt(2), RSq(p.T))
    IN  IF RLess(t_rel, RInt(0)) THEN RInt(0)
        ELSE IF RLeq(t_rel, RDiv(p.T, RInt(2)))
        THEN RMul(s_coeff, RSq(t_rel))
        ELSE IF RLeq(t_rel, p.T)
        THEN RSub(RInt(1), RMul(s_coeff, RSq(RSub(p.T, t_rel))))
        ELSE RInt(1)

Tri_ds(p, t_rel) ==
    LET ds_coeff == RDiv(RInt(4), RSq(p.T))
    IN  IF RLess(t_rel, RInt(0)) THEN RInt(0)
        ELSE IF RLeq(t_rel, RDiv(p.T, RInt(2))) THEN RMul(ds_coeff, t_rel)
        ELSE IF RLeq(t_rel, p.T) THEN RMul(ds_coeff, RSub(p.T, t_rel))
        ELSE RInt(0)

\* the three-way np.where of TrapezoidalVelocityProfile.s, ds and dds
TraWhere(p, t_rel, first, second, third) ==
    IF RLess(t_rel, p.tb) THEN first
    ELSE IF RLeq(p.tb, t_rel) /\ RLess(t_rel, RSub(p.T, p.tb)) THEN second
    ELSE IF RLeq(RSub(p.T, p.tb), t_rel) /\ RLess(t_rel, p.T) THEN third
    ELSE RInt(0)

\* whether TrapezoidalVelocityProfile.s returns the ones
Tra_s_ends_AfterT(p, t_rel) == RLess(p.T, t_rel)

Tra_s_ends(p, t_rel) == RLeq(p.T, t_rel)

Tra_s(p, t_rel) ==
    IF RLess(t_rel, RInt(0)) THEN RInt(0)
    ELSE IF Tra_s_ends(p, t_rel) THEN RInt(1)
    ELSE TraWhere(p, t_rel,
                  RMul(RMul(Rat(1, 2), p.a), RSq(t_rel)),
                  RMul(p.vM, RSub(t_rel, RMul(Rat(1, 2), p.tb))),
                  RSub(RInt(1), RMul(RMul(Rat(1, 2), p.a),
                                     RSq(RSub(p.T, t_rel)))))

Tra_ds(p, t_rel) ==
    IF RLess(t_rel, RInt(0)) \/ RLeq(p.T, t_rel) THEN RInt(0)
    ELSE TraWhere(p, t_rel, RMul(p.a, t_rel), p.vM,
                  RMul(p.a, RSub(p.T, t_rel)))

\* FifthDegreePolynomialProfile.s and ds
Fifth_s(p, t_rel) ==
    IF RLess(t_rel, RInt(0)) THEN RInt(0)
    ELSE IF RLess(p.T, t_rel) THEN RInt(1)
    ELSE LET t1 == RDiv(t_rel, p.T)
             t2 == RMul(t1, t1)
             t3 == RMul(t2, t1)
         IN  RMul(t3, RAdd(RSub(RMul(RInt(6), t2), RMul(RInt(15), t1)),
                           RInt(10)))

Fifth_ds(p, t_rel) ==
    IF RLess(t_rel, RInt(0)) \/ RLess(p.T, t_rel) THEN RInt(0)
    ELSE LET t1 == RDiv(t_rel, p.T)
             t2 == RMul(t1, t1)
         IN  RMul(RMul(RMul(t2, RSub(t1, RInt(1))), RSub(t1, RInt(1))),
                  RDiv(RInt(30), p.T))

Profile_s(p, t) ==
    CASE p.name = "tri" -> Tri_s(p, RSub(t, p.t0))
      [] p.name = "tra" -> Tra_s(p, RSub(t, p.t0))
      [] p.name = "5th" -> Fifth_s(p, RSub(t, p.t0))

Profile_ds(p, t) ==
    CASE p.name = "tri" -> Tri_ds(p, RSub(t, p.t0))
      [] p.name = "tra" -> Tra_ds(p, RSub(t, p.t0))
      [] p.name = "5th" -> Fifth_ds(p, RSub(t, p.t0))

\* Profile.q and Profile.dq
Profile_q(p, t) ==
    RAdd(RMul(p.q0, RSub(RInt(1), Profile_s(p, t))),
         RMul(p.qF, Profile_s(p, t)))

Profile_dq(p, t) == RMul(RSub(p.qF, p.q0), Profile_ds(p, t))

PtpValues == {RInt(i) : i \in 0..MaxPtpVal}
PtpDurations == {RInt(i) : i \in 1..MaxPtpT}
PtpStarts == {RInt(0), RInt(1)}
PtpOptions == {None} \cup {Some(Rat(k, 4)) : k \in {0, 1, 2, 3, 6}}

\* the calls on the PTP object of the model: the arguments of its
\* constructor are fArgs.made, its profile is fArgs.p
PtpMade(p, vmax, tb) == [p |-> p, vmax |-> vmax, tb |-> tb]

\* PTP(q0, qF, T, t0, profile_name) with a triangular or 5th-degree profile
PtpConstruct(name, q0, qF, T, t0) ==
    /\ fArgs = <<>>
    /\ fArgs' = PtpMade(Profile_init(name, q0, qF, T, t0), None, None)
    /\ UNCHANGED <<fOut, objectVars, threadVars, timeVars, runnerVars>>

\* PTP(q0, qF, T, t0, profile_name="tra", vmax=..., tb=...)
PtpConstructTrapezoidal(q0, qF, T, t0, vmax, tb) ==
    /\ fArgs = <<>>
    /\ fArgs' = PtpMade(TrapezoidalVelocityProfile(q0, qF, T, t0, vmax, tb),
                        vmax, tb)
    /\ UNCHANGED <<fOut, objectVars, threadVars, timeVars, runnerVars>>

\* ptp.q(t) and ptp.dq(t) at t = t0 + k / 2
PtpEvaluate(k) ==
    /\ fArgs # <<>>
    /\ fArgs.p.raised = "none"
    /\ LET t == RAdd(fArgs.p.t0, Rat(k, 2))
       IN  fOut' = [t |-> t, q |-> Profile_q(fArgs.p, t),
                    dq |-> Profile_dq(fArgs.p, t)]
    /\ UNCHANGED <<fArgs, objectVars, threadVars, timeVars, runnerVars>>

PtpNext ==
    \/ \E name \in {"tri", "5th"}, q0 \in PtpValues, qF \in PtpValues,
          T \in PtpDurations, t0 \in PtpStarts :
           PtpConstruct(name, q0, qF, T, t0)
    \/ \E q0 \in PtpValues, qF \in PtpValues, T \in PtpDurations,
          t0 \in PtpStarts, vmax \in PtpOptions, tb \in PtpOptions :
           PtpConstructTrapezoidal(q0, qF, T, t0, vmax, tb)
    \/ \E k \in (-2)..(2 * MaxPtpT + 2) : PtpEvaluate(k)

SpecPtp == UtilInit /\ [][PtpNext]_vars

FilterInit ==
    /\ UtilIdle
    /\ StateIdle
    /\ CtrlIdle
    /\ \E n \in NPointsChoices : filt = Filter_init(n)
    /\ filtOut = Unset
    /\ filtHist = <<>>
    /\ ThreadIdle

FilterUpdate(x) ==
    /\ Len(filtHist) < MaxFilterUpdates
    /\ filt' = Filter_update_obj(filt, x)
    /\ filtOut' = Filter_update_ret(filt, x)
    /\ filtHist' = Append(filtHist, x)
    /\ UNCHANGED <<stateVars, ctrlVars, threadVars, utilVars>>

FilterNext == \E x \in Samples : FilterUpdate(x)

SpecFilter == FilterInit /\ [][FilterNext]_vars

\* the window specification: the window size is set again after the
\* construction, and the samples are scalars and arrays of two lengths that
\* cannot be added to one another
WindowSamples ==
    {Scalar(RInt(1)),
     Arr([i \in 1..2 |-> RInt(i)]),
     Arr([i \in 1..3 |-> RInt(i)])}

WindowUpdate(x) ==
    /\ Len(filtHist) < MaxWindowUpdates
    /\ filt' = Filter_update_obj(filt, x)
    /\ filtOut' = Filter_update_ret(filt, x)
    /\ filtHist' = Append(filtHist, x)
    /\ UNCHANGED <<stateVars, ctrlVars, threadVars, utilVars>>

WindowSetNPoints(n) ==
    /\ filt' = Filter_set_n_points(filt, n)
    /\ UNCHANGED <<filtOut, filtHist, stateVars, ctrlVars, threadVars, utilVars>>

WindowNext ==
    \/ \E x \in WindowSamples : WindowUpdate(x)
    \/ \E n \in 1..MaxNPoints : WindowSetNPoints(n)

SpecWindow == FilterInit /\ [][WindowNext]_vars


-----------------------------------------------------------------------------
(* The estimator specification: one AffState of a DOF-joint robot is fed   *)
(* raw frames of every length up to 3 * (DOF + 1).  Joint j of a frame of  *)
(* amplitude a reads q = a * j, pa = a * j + 1, pb = a * j + 2.            *)

MaxFrameLen == 3 * (DOF + 1)

FrameOf(len, a) ==
    [i \in 1..len |-> a * (((i - 1) \div 3) + 1) + ((i - 1) % 3)]

Frames == {FrameOf(len, a) : len \in 1..MaxFrameLen, a \in {0, MaxAmp}}

StateInit ==
    /\ UtilIdle
    /\ StateIdle
    /\ FilterIdle
    /\ CtrlIdle
    /\ ThreadIdle

StateUpdate(raw) ==
    /\ aCalls < MaxStateUpdates
    /\ aCalls' = aCalls + 1
    /\ LET r == AffState_update(astate, raw)
       IN  /\ astate' = r.s
           /\ aRaised' = r.raised
           /\ aDone' = IF r.raised THEN aDone
                       ELSE <<r.s.filtered_data[1]>> \o SubSeq(aDone, 1, IF aDone = <<>> THEN 0 ELSE 1)
    /\ aFrame' = raw
    /\ UNCHANGED <<filterVars, ctrlVars, threadVars, utilVars>>

StateNext == \E raw \in Frames : StateUpdate(raw)

SpecState == StateInit /\ [][StateNext]_vars

-----------------------------------------------------------------------------
(* AffState.idle(acom, n_sample, freq_tol, no_error) on an estimator of    *)
(* the default frequency.  A tick of the clock is 1 / TicksPerPeriod of    *)
(* the configured sampling period; the frames received are well formed.    *)

TicksPerSecond == TicksPerPeriod * AFFSTATE_DEFAULT_FREQ

\* Timer.elapsed_time() in seconds
Seconds(ticks) == Rat(ticks, TicksPerSecond)

RECURSIVE RSum(_)
RSum(xs) == IF xs = <<>> THEN RInt(0) ELSE RAdd(Head(xs), RSum(Tail(xs)))

\* np.subtract(time_series[1:], time_series[:-1])
idle_dt_series(ts) == [i \in 1..(Len(ts) - 1) |-> RSub(ts[i + 1], ts[i])]

\* 1.0 / np.mean(dt_series): the mean of no value is nan, and NumPy divides
\* 1.0 by a zero mean to inf
idle_estimated_freq(ts) ==
    LET dt_series == idle_dt_series(ts)
    IN  IF dt_series = <<>> THEN [kind |-> "nan", val |-> RInt(0)]
        ELSE LET mean == RDiv(RSum(dt_series), RInt(Len(dt_series)))
             IN  IF mean = RInt(0) THEN [kind |-> "inf", val |-> RInt(0)]
                 ELSE [kind |-> "num", val |-> RDiv(RInt(1), mean)]

\* abs(self.freq - estimated_freq) > freq_tol, which is False of nan
idle_freq_differs(freq, estimated_freq, freq_tol) ==
    CASE estimated_freq.kind = "nan" -> FALSE
      [] estimated_freq.kind = "inf" -> TRUE
      [] OTHER -> RLess(freq_tol, RAbs(RSub(freq, estimated_freq.val)))

\* the test that ends idle() by RuntimeError
idle_raises_WhateverNoError(s, ts, freq_tol, no_error) ==
    idle_freq_differs(s.freq, idle_estimated_freq(ts), freq_tol)

idle_raises(s, ts, freq_tol, no_error) ==
    ~no_error /\ idle_freq_differs(s.freq, idle_estimated_freq(ts), freq_tol)

\* the tolerances given: the default, and the configured frequency itself
FreqTols == {RInt(1), RInt(AFFSTATE_DEFAULT_FREQ)}

IdleFrame == FrameOf(3 * DOF, MaxAmp)

NotIdling == [pc |-> "none", series |-> <<>>, fed |-> 0, was |-> FALSE]

\* idle() is called: a Timer is constructed and started
IdleBegin(n_sample, freq_tol, no_error) ==
    /\ IF fOut = <<>> THEN TRUE ELSE fOut.pc # "loop"
    /\ aCalls + n_sample <= MaxStateUpdates
    /\ fArgs' = [n_sample |-> n_sample, freq_tol |-> freq_tol,
                 no_error |-> no_error]
    /\ fOut' = [NotIdling EXCEPT !.pc = "loop", !.was = astate.idled]
    /\ timer' = Timer_start(Timer_init, clock)
    /\ UNCHANGED <<clock, rate, tCall, runnerVars, filterVars, stateVars,
                   ctrlVars, threadVars>>

\* one round of the loop: a frame arrives gap ticks after the last one, its
\* arrival time is appended and update is called
IdleReceive(gap) ==
    /\ fOut # <<>>
    /\ fOut.pc = "loop"
    /\ Len(fOut.series) < fArgs.n_sample
    /\ clock' = clock + gap
    /\ LET r == AffState_update(astate, IdleFrame)
       IN  /\ astate' = r.s
           /\ aRaised' = r.raised
           /\ aCalls' = aCalls + 1
           /\ aFrame' = IdleFrame
           /\ fOut' = [fOut EXCEPT
                          !.series = Append(@, Seconds(
                              Timer_elapsed_time(timer, clock'))),
                          !.fed = IF r.raised THEN @ ELSE @ + 1]
    /\ UNCHANGED <<aDone, fArgs, rate, timer, tCall, runnerVars, filterVars,
                   ctrlVars, threadVars>>

\* after the loop: RuntimeError, or self._idled = True
IdleFinish ==
    /\ fOut # <<>>
    /\ fOut.pc = "loop"
    /\ Len(fOut.series) = fArgs.n_sample
    /\ IF idle_raises(astate, fOut.series, fArgs.freq_tol, fArgs.no_error)
       THEN /\ fOut' = [fOut EXCEPT !.pc = "raised"]
            /\ UNCHANGED astate
       ELSE /\ fOut' = [fOut EXCEPT !.pc = "returned"]
            /\ astate' = [astate EXCEPT !.idled = TRUE]
    /\ UNCHANGED <<aFrame, aRaised, aDone, aCalls, fArgs, timeVars,
                   runnerVars, filterVars, ctrlVars, threadVars>>

IdleNext ==
    \/ \E n_sample \in 0..MaxStateUpdates, freq_tol \in FreqTols,
          no_error \in BOOLEAN : IdleBegin(n_sample, freq_tol, no_error)
    \/ \E gap \in 0..MaxGap : IdleReceive(gap)
    \/ IdleFinish

SpecIdle == UtilInit /\ [][IdleNext]_vars

-----------------------------------------------------------------------------------------------------------------------------------------------------
(* The controller specifications: one AffCtrl of a DOF-joint robot.  cArgs, *)
(* cScheme and cOut describe the update call just made; any other method   *)
(* call clears them.  Joint j of a non-zero input vector reads             *)
(* MaxCtrlVal * j.                                                         *)

ZeroVec == Arr([j \in 1..DOF |-> RInt(0)])
RampVec == Arr([j \in 1..DOF |-> RInt(MaxCtrlVal * j)])

\* <<q, dq, pa, pb, qdes, dqdes>> with the vectors numbered in nz non-zero
CtrlInput(nz) == [k \in 1..6 |-> IF k \in nz THEN RampVec ELSE ZeroVec]

\* the inputs of the scheme specification: at most two non-zero vectors
SchemeInputs == {CtrlInput(nz) : nz \in {x \in SUBSET (1..6) : Cardinality(x) <= 2}}

\* the inputs of the table specification: all zero, pa non-zero, qdes non-zero
TableInputs == {CtrlInput(nz) : nz \in {{}, {3}, {5}}}

\* the int patterns tried: the first and the last joint, the index below the
\* first and the index above the last
IndexArgs == {PyInt(i) : i \in {-1, 0, DOF - 1, DOF}}

CtrlInit ==
    /\ UtilIdle
    /\ CtrlIdle
    /\ StateIdle
    /\ FilterIdle
    /\ ThreadIdle

NoCall ==
    /\ cArgs' = <<>>
    /\ cScheme' = <<>>
    /\ cOut' = <<>>
    /\ UNCHANGED <<cCalls, filterVars, stateVars, threadVars, utilVars>>

\* what is kept of a set/add_inactive_joints call
TableCall(op, pattern, pressure) ==
    [op |-> op, pattern |-> pattern, pressure |-> pressure,
     raised |-> make_inactive_joints_array(actrl, pattern, pressure).raised]

CtrlSetInactiveJoints(i, p) ==
    /\ actrl' = set_inactive_joints(actrl, i, p)
    /\ cTable' = TableCall("set", i, p)
    /\ NoCall

CtrlAddInactiveJoints(i, p) ==
    /\ Len(actrl.inactive_joints) < MaxTableRows
    /\ actrl' = add_inactive_joints(actrl, i, p)
    /\ cTable' = TableCall("add", i, p)
    /\ NoCall

CtrlSetActiveJoints(pattern, p) ==
    /\ actrl' = set_active_joints(actrl, pattern, p)
    /\ cTable' = [op |-> "set_active", pattern |-> pattern, pressure |-> p,
                  raised |-> FALSE]
    /\ NoCall

CtrlResetInactiveJoints ==
    /\ actrl' = reset_inactive_joints(actrl)
    /\ cTable' = [NoTableCall EXCEPT !.op = "reset"]
    /\ NoCall

CtrlSetInputRange ==
    /\ actrl' = set_input_range(actrl, ConfRangeMin, ConfRangeMax)
    /\ UNCHANGED cTable
    /\ NoCall

CtrlLoadFeedbackScheme(cls, g) ==
    /\ actrl' = load_feedback_scheme(actrl, cls, g)
    /\ UNCHANGED cTable
    /\ NoCall

CtrlUpdate(a) ==
    /\ cCalls < MaxCtrlUpdates
    /\ LET r == AffCtrl_update(actrl, 0, a[1], a[2], a[3], a[4], a[5], a[6])
       IN  /\ actrl' = r.c
           /\ cScheme' = r.scheme
           /\ cOut' = r.out
    /\ cArgs' = a
    /\ cCalls' = cCalls + 1
    /\ UNCHANGED <<cTable, filterVars, stateVars, threadVars, utilVars>>

\* the table specification: the table, the input range and the scheme are
\* set in any order between update calls
CtrlNext ==
    \/ \E i \in IndexArgs : CtrlSetInactiveJoints(i, ConfPressure)
    \/ \E i \in IndexArgs : CtrlAddInactiveJoints(i, NoPressure)
    \/ CtrlResetInactiveJoints
    \/ CtrlSetInputRange
    \/ \E cls \in {"PID", "PIDF"} : CtrlLoadFeedbackScheme(cls, TRUE)
    \/ \E a \in TableInputs : CtrlUpdate(a)

SpecCtrl == CtrlInit /\ [][CtrlNext]_vars

\* the pattern specification: a table is built by add_inactive_joints calls
\* with int patterns; set_inactive_joints and add_inactive_joints are then
\* called with every string of at most MaxPatternLen characters as pattern,
\* and the table is emptied before the next one is built
PatternChars == {"0", "1", "-", ",", "a"}

Patterns ==
    {PyStr(str) : str \in UNION {[1..n -> PatternChars] : n \in 0..MaxPatternLen}}

\* the last call was given an int pattern, or none was made since the
\* table was emptied
TableBuiltByInts == cTable.pattern.type = "int"

PatternBuildTable(i) ==
    /\ TableBuiltByInts
    /\ CtrlAddInactiveJoints(i, NoPressure)

PatternSetInactiveJoints(pattern, p) ==
    /\ TableBuiltByInts
    /\ CtrlSetInactiveJoints(pattern, p)

PatternAddInactiveJoints(pattern, p) ==
    /\ TableBuiltByInts
    /\ CtrlAddInactiveJoints(pattern, p)

PatternNext ==
    \/ \E i \in IndexArgs : PatternBuildTable(i)
    \/ \E pattern \in Patterns : PatternSetInactiveJoints(pattern, ConfPressure)
    \/ \E pattern \in Patterns : PatternAddInactiveJoints(pattern, NoPressure)
    \/ CtrlResetInactiveJoints

SpecPattern == CtrlInit /\ [][PatternNext]_vars

\* the activation specification: the joints are chosen by set_active_joints
\* and by set_inactive_joints, and the table is emptied
ActiveNext ==
    \/ \E pattern \in Patterns \cup IndexArgs, p \in {NoPressure, ConfPressure} :
           CtrlSetActiveJoints(pattern, p)
    \/ \E pattern \in IndexArgs : CtrlSetInactiveJoints(pattern, ConfPressure)
    \/ CtrlResetInactiveJoints

SpecActive == CtrlInit /\ [][ActiveNext]_vars

\* the scale specification: an input range lo < hi is set, and scale is
\* called with command vectors that rise in half steps from a first value
\* between below lo and above hi
ScaleValues == {Rat(k, 2) : k \in (-2)..(2 * MaxRangeBound + 2)}

ScaleVectors ==
    {Arr([j \in 1..DOF |-> RAdd(x, Rat(j - 1, 2))]) : x \in ScaleValues}

ScaleSetInputRange(lo, hi) ==
    /\ actrl' = set_input_range(actrl, lo, hi)
    /\ UNCHANGED cTable
    /\ NoCall

ScaleCall(u1, u2) ==
    /\ cArgs' = <<u1, u2>>
    /\ cOut' = AffCtrl_scale(actrl, u1, u2)
    /\ cScheme' = <<>>
    /\ UNCHANGED <<actrl, cTable, cCalls, filterVars, stateVars, threadVars, utilVars>>

ScaleNext ==
    \/ \E lo \in 0..(MaxRangeBound - 1) :
           \E hi \in (lo + 1)..MaxRangeBound : ScaleSetInputRange(lo, hi)
    \/ \E u \in ScaleVectors : ScaleCall(u, ZeroVec)
    \/ \E u \in ScaleVectors : ScaleCall(RampVec, u)

SpecScale == CtrlInit /\ [][ScaleNext]_vars

\* the scheme specification: no inactive joint, no input range; a scheme is
\* loaded (PID, PIDF without and with press_gain) and update called
SchemeNext ==
    \/ \E cls \in {"PID", "PIDF"}, g \in BOOLEAN : CtrlLoadFeedbackScheme(cls, g)
    \/ \E a \in SchemeInputs : CtrlUpdate(a)

SpecScheme == CtrlInit /\ [][SchemeNext]_vars

\* the accumulator specification: one scheme object (the PID scheme of the
\* constructor) is called directly through positional_feedback and through
\* AffCtrl.update, while joints are made inactive and active again.  fOut
\* keeps the sum of qdes - q over the calls made and what the last direct
\* call returned.
NoErrorYet == [sum |-> Unset, direct |-> FALSE, e |-> Unset]

AccumulatedError(qerr) ==
    LET before == IF fOut = <<>> THEN NoErrorYet ELSE fOut
    IN  IF IsSet(before.sum) THEN NAdd(before.sum, qerr) ELSE qerr

\* scheme.positional_feedback(t, q, dq, qdes, dqdes)
AccumFeedback(a) ==
    /\ cCalls < MaxAccumCalls
    /\ LET r == positional_feedback(actrl.feedback_scheme, 0,
                                    a[1], a[2], a[5], a[6])
       IN  /\ actrl' = [actrl EXCEPT !.feedback_scheme = r.fb]
           /\ fOut' = [sum |-> AccumulatedError(NSub(a[5], a[1])),
                       direct |-> TRUE, e |-> r.e]
    /\ cArgs' = a
    /\ cScheme' = <<>>
    /\ cOut' = <<>>
    /\ cCalls' = cCalls + 1
    /\ UNCHANGED <<cTable, filterVars, stateVars, threadVars, timeVars,
                   runnerVars, fArgs>>

\* actrl.update(t, q, dq, pa, pb, qdes, dqdes): a control cycle
AccumUpdate(a) ==
    /\ cCalls < MaxAccumCalls
    /\ LET r == AffCtrl_update(actrl, 0, a[1], a[2], a[3], a[4], a[5], a[6])
       IN  /\ actrl' = r.c
           /\ cScheme' = r.scheme
           /\ cOut' = r.out
    /\ fOut' = [sum |-> AccumulatedError(NSub(a[5], a[1])),
                direct |-> FALSE, e |-> Unset]
    /\ cArgs' = a
    /\ cCalls' = cCalls + 1
    /\ UNCHANGED <<cTable, filterVars, stateVars, threadVars, timeVars,
                   runnerVars, fArgs>>

\* the inputs of the accumulator specification: q, dq, qdes and dqdes are
\* zero or the ramp, its negative included through qdes = 0
AccumInputs == {CtrlInput(nz) : nz \in SUBSET {1, 2, 5, 6}}

AccumNext ==
    \/ \E a \in AccumInputs : AccumFeedback(a)
    \/ \E a \in AccumInputs : AccumUpdate(a)
    \/ CtrlSetInactiveJoints(PyInt(0), ConfPressure)
    \/ CtrlResetInactiveJoints

SpecAccum == CtrlInit /\ [][AccumNext]_vars

-----------------------------------------------------------------------------
(* The threads: AffStateThread (the sensor thread), AffCtrlThread (the     *)
(* control thread) and the main thread that calls their public methods.    *)
(* Every step of run() that touches shared state (a lock, an Event, the    *)
(* estimator, a socket) is one action.  The estimator is kept by the       *)
(* provenance of its fields: update number k writes k into each field in   *)
(* the order AffState.update assigns them.  Frames are well formed here;   *)
(* the values computed from them are the estimator specification's         *)
(* subject.  The main thread calls prepare() before it starts a thread or  *)
(* not at all.                                                             *)

\* n_sample of prepare() / idle() (100 when not given)
NSample == 2
\* the frames the robot sends in a run
MaxFrames == 4
\* the iterations the control loop begins in a run
MaxCtrlIter == 2
MaxGainWrites == 1

\* AffState.update, affstate.py 99-100: _raw_data and _data_ndarray
EstStoreRaw(e) == [e EXCEPT !.data = e.n_steps + 1]
\* affstate.py 101-105: _filtered_data
EstFilter(e) == [e EXCEPT !.filt = e.n_steps + 1]
\* affstate.py 106-112: _dq, _q_prev, n_steps
EstDifferentiate(e) == [e EXCEPT !.dq = e.n_steps + 1, !.n_steps = e.n_steps + 1]
\* the whole update, as idle() calls it: no lock is taken
EstUpdate(e) == EstDifferentiate(EstFilter(EstStoreRaw(e)))

\* Thread.is_alive() of the sensor thread
SensorAlive == sensPc \notin {"s_none", "s_done", "s_crashed"}

\* AffStateThread.prepared
prepared == est.idled /\ idledEvent

\* Socket.is_created(): whether create() has been called on the socket.
\* affcomm.py and affstate.py call it; the class in _sockutil.py does not
\* define it, so it is taken as its callers and the specification use it.
is_created(sock) == sock # "none"

\* acom.create_sensory_socket() unless the socket is created
SocketAfterIdleBegins == IF ~is_created(sensSock) THEN "open" ELSE sensSock

\* a frame sent by the robot reaches the bound sensory socket
FrameArrives ==
    /\ sensSock = "open"
    /\ arrived < MaxFrames
    /\ arrived' = arrived + 1
    /\ pending' = pending + 1
    /\ UNCHANGED <<objectVars, utilVars, auxVars, logStored, sensWarned, mainPc, sensPc, ctrlPc, stateLock, ctrlLock, sensStopped,
                   ctrlStopped, idledEvent, est, sensSock, cmdSock, idleN,
                   got, ctrlIter, ctrlErr, sendsAfterStop>>

(* ---- the main thread ---- *)

\* astate.prepare() is called: idle() creates the sensory socket
MainPrepare ==
    /\ mainPc = "ready"
    /\ sensPc = "s_none"
    /\ ctrlPc = "c_none"
    /\ ~est.idled
    /\ mainPc' = "m_idle"
    /\ idleN' = 0
    /\ sensSock' = SocketAfterIdleBegins
    /\ UNCHANGED <<objectVars, utilVars, auxVars, logStored, sensWarned, sensPc, ctrlPc, stateLock, ctrlLock, sensStopped,
                   ctrlStopped, idledEvent, est, cmdSock, pending, arrived,
                   got, ctrlIter, ctrlErr, sendsAfterStop>>

\* one round of idle()'s loop: a blocking receive, then update
MainIdleReceive ==
    /\ mainPc = "m_idle"
    /\ idleN < NSample
    /\ pending > 0
    /\ pending' = pending - 1
    /\ est' = EstUpdate(est)
    /\ idleN' = idleN + 1
    /\ UNCHANGED <<objectVars, utilVars, auxVars, logStored, sensWarned, mainPc, sensPc, ctrlPc, stateLock, ctrlLock, sensStopped,
                   ctrlStopped, idledEvent, sensSock, cmdSock, arrived,
                   got, ctrlIter, ctrlErr, sendsAfterStop>>

\* the end of idle(): the estimated frequency is within the tolerance (ok)
\* and _idled becomes True, or idle() raises RuntimeError, which leaves
\* prepare() before its last statement
MainIdleFinish_SetsOnError(ok) ==
    /\ mainPc = "m_idle"
    /\ idleN = NSample
    /\ mainPc' = "m_set"
    /\ est' = [est EXCEPT !.idled = IF ok THEN TRUE ELSE est.idled]
    /\ UNCHANGED <<objectVars, utilVars, auxVars, logStored, sensWarned, sensPc, ctrlPc, stateLock, ctrlLock, sensStopped,
                   ctrlStopped, idledEvent, sensSock, cmdSock, pending, arrived, idleN,
                   got, ctrlIter, ctrlErr, sendsAfterStop>>

MainIdleFinish(ok) ==
    /\ mainPc = "m_idle"
    /\ idleN = NSample
    /\ mainPc' = IF ok THEN "m_set" ELSE "ready"
    /\ est' = [est EXCEPT !.idled = IF ok THEN TRUE ELSE est.idled]
    /\ UNCHANGED <<objectVars, utilVars, auxVars, logStored, sensWarned, sensPc, ctrlPc, stateLock, ctrlLock, sensStopped,
                   ctrlStopped, idledEvent, sensSock, cmdSock, pending, arrived, idleN,
                   got, ctrlIter, ctrlErr, sendsAfterStop>>

\* the last statement of prepare(): self._idled.set()
MainSetIdled ==
    /\ mainPc = "m_set"
    /\ idledEvent' = TRUE
    /\ mainPc' = "ready"
    /\ UNCHANGED <<objectVars, utilVars, auxVars, logStored, sensWarned, sensPc, ctrlPc, stateLock, ctrlLock, sensStopped,
                   ctrlStopped, est, sensSock, cmdSock, pending, arrived, idleN,
                   got, ctrlIter, ctrlErr, sendsAfterStop>>

\* astate.start()
MainStartSensor ==
    /\ mainPc = "ready"
    /\ sensPc = "s_none"
    /\ sensPc' = "s_begin"
    /\ UNCHANGED <<objectVars, utilVars, auxVars, logStored, sensWarned, mainPc, ctrlPc, stateLock, ctrlLock, sensStopped,
                   ctrlStopped, idledEvent, est, sensSock, cmdSock, pending,
                   arrived, idleN, got, ctrlIter, ctrlErr, sendsAfterStop>>

\* actrl.start()
MainStartCtrl ==
    /\ mainPc = "ready"
    /\ ctrlPc = "c_none"
    /\ ctrlPc' = "c_begin"
    /\ UNCHANGED <<objectVars, utilVars, auxVars, logStored, sensWarned, mainPc, sensPc, stateLock, ctrlLock, sensStopped,
                   ctrlStopped, idledEvent, est, sensSock, cmdSock, pending,
                   arrived, idleN, got, ctrlIter, ctrlErr, sendsAfterStop>>

\* AffStateThread.stop() (and the stop() that join() begins with): the
\* Event is set; no socket is touched
MainStopSensor ==
    /\ mainPc = "ready"
    /\ ~sensStopped
    /\ sensStopped' = TRUE
    /\ UNCHANGED <<objectVars, utilVars, auxVars, logStored, sensWarned, mainPc, sensPc, ctrlPc, stateLock, ctrlLock,
                   ctrlStopped, idledEvent, est, sensSock, cmdSock, pending,
                   arrived, idleN, got, ctrlIter, ctrlErr, sendsAfterStop>>

\* AffCtrlThread.stop()
MainStopCtrl ==
    /\ mainPc = "ready"
    /\ ~ctrlStopped
    /\ ctrlStopped' = TRUE
    /\ UNCHANGED <<objectVars, utilVars, auxVars, logStored, sensWarned, mainPc, sensPc, ctrlPc, stateLock, ctrlLock, sensStopped,
                   idledEvent, est, sensSock, cmdSock, pending,
                   arrived, idleN, got, ctrlIter, ctrlErr, sendsAfterStop>>

\* wait_for_idling(timeout) is called on either thread object (the control
\* thread's hands the call to the sensor thread's): Event.wait begins
WaitTimeouts == {"forever", "running"}

MainWaitForIdling(timeout) ==
    /\ mainPc = "ready"
    /\ mainPc' = "m_wait"
    /\ waitCall' = [timeout |-> timeout, result |-> "none"]
    /\ UNCHANGED <<objectVars, utilVars, hasLogger, logDumped, ctrlJoined, schemeRef, gains, logStored, sensWarned, sensPc, ctrlPc, stateLock, ctrlLock, sensStopped,
                   ctrlStopped, idledEvent, est, sensSock, cmdSock, pending, arrived, idleN,
                   got, ctrlIter, ctrlErr, sendsAfterStop>>

\* the time given to Event.wait has passed
WaitTimeoutElapses ==
    /\ mainPc = "m_wait"
    /\ waitCall.timeout = "running"
    /\ waitCall' = [waitCall EXCEPT !.timeout = "elapsed"]
    /\ UNCHANGED <<objectVars, utilVars, hasLogger, logDumped, ctrlJoined, schemeRef, gains, logStored, sensWarned, mainPc, sensPc, ctrlPc, stateLock, ctrlLock, sensStopped,
                   ctrlStopped, idledEvent, est, sensSock, cmdSock, pending, arrived, idleN,
                   got, ctrlIter, ctrlErr, sendsAfterStop>>

\* Event.wait returns once the flag is set or the time has passed, with the
\* flag as its value
WaitMayReturn_NoTimeout == idledEvent

WaitMayReturn == idledEvent \/ waitCall.timeout = "elapsed"

MainWaitReturn ==
    /\ mainPc = "m_wait"
    /\ WaitMayReturn
    /\ mainPc' = "ready"
    /\ waitCall' = [timeout |-> "none",
                    result |-> IF idledEvent THEN "True" ELSE "False"]
    /\ UNCHANGED <<objectVars, utilVars, hasLogger, logDumped, ctrlJoined, schemeRef, gains, logStored, sensWarned, sensPc, ctrlPc, stateLock, ctrlLock, sensStopped,
                   ctrlStopped, idledEvent, est, sensSock, cmdSock, pending, arrived, idleN,
                   got, ctrlIter, ctrlErr, sendsAfterStop>>

\* stop() of a control thread that has a logger begins with
\* self._logger.dump(), which writes the rows stored so far to the file;
\* by is "stop" for a call of stop() and "join" for the stop() that join()
\* begins with
MainCtrlDump(by) ==
    /\ mainPc = "ready"
    /\ hasLogger
    /\ ~ctrlJoined
    /\ by = "stop" => ~ctrlStopped
    /\ by = "join" => ctrlPc # "c_none"
    /\ logDumped' = logStored
    /\ mainPc' = IF by = "join" THEN "m_join_set" ELSE "m_stop_set"
    /\ UNCHANGED <<objectVars, utilVars, waitCall, hasLogger, schemeRef, gains, logStored, sensWarned, sensPc, ctrlPc, stateLock, ctrlLock, sensStopped,
                   idledEvent, est, sensSock, cmdSock, pending, arrived, idleN,
                   got, ctrlIter, ctrlErr, sendsAfterStop, ctrlStopped, ctrlJoined>>

\* the last statement of stop(): self._stopped.set()
MainCtrlSetStopped ==
    /\ mainPc \in {"m_stop_set", "m_join_set"}
    /\ ctrlStopped' = TRUE
    /\ mainPc' = IF mainPc = "m_join_set" THEN "m_join" ELSE "ready"
    /\ UNCHANGED <<objectVars, utilVars, waitCall, hasLogger, schemeRef, gains, logStored, sensWarned, sensPc, ctrlPc, stateLock, ctrlLock, sensStopped,
                   idledEvent, est, sensSock, cmdSock, pending, arrived, idleN,
                   got, ctrlIter, ctrlErr, sendsAfterStop, logDumped, ctrlJoined>>

\* Thread.join returns when run() has ended
MainJoinReturn ==
    /\ mainPc = "m_join"
    /\ ctrlPc \in {"c_done", "c_crashed"}
    /\ ctrlJoined' = TRUE
    /\ mainPc' = "ready"
    /\ UNCHANGED <<objectVars, utilVars, waitCall, hasLogger, schemeRef, gains, logStored, sensWarned, sensPc, ctrlPc, stateLock, ctrlLock, sensStopped,
                   idledEvent, est, sensSock, cmdSock, pending, arrived, idleN,
                   got, ctrlIter, ctrlErr, sendsAfterStop, logDumped, ctrlStopped>>

\* the feedback_scheme property of the control thread: under the lock, the
\* Feedback object of the controller itself is returned, not a copy of it
MainGetFeedbackScheme ==
    /\ mainPc = "ready"
    /\ ctrlLock = "free"
    /\ ~schemeRef
    /\ schemeRef' = TRUE
    /\ UNCHANGED <<objectVars, utilVars, waitCall, hasLogger, logDumped, ctrlJoined, logStored, sensWarned, mainPc, sensPc, ctrlPc, stateLock, ctrlLock, sensStopped,
                   ctrlStopped, idledEvent, est, sensSock, cmdSock, pending, arrived, idleN,
                   got, ctrlIter, ctrlErr, sendsAfterStop, gains>>

\* a gain of the object feedback_scheme returned is set (Feedback.kP and
\* the other setters): a plain assignment, no lock is involved
MainSetGain ==
    /\ mainPc = "ready"
    /\ schemeRef
    /\ gains < MaxGainWrites
    /\ gains' = gains + 1
    /\ UNCHANGED <<objectVars, utilVars, waitCall, hasLogger, logDumped, ctrlJoined, logStored, sensWarned, mainPc, sensPc, ctrlPc, stateLock, ctrlLock, sensStopped,
                   ctrlStopped, idledEvent, est, sensSock, cmdSock, pending, arrived, idleN,
                   got, ctrlIter, ctrlErr, sendsAfterStop, schemeRef>>

(* ---- AffStateThread.run ---- *)

\* the check of prepared(): a warning when it fails, and run() goes on
SensBegin_NoWarning ==
    /\ sensPc = "s_begin"
    /\ sensWarned' = FALSE
    /\ sensPc' = "s_timer_acq"
    /\ UNCHANGED <<objectVars, utilVars, auxVars, logStored, mainPc, ctrlPc, stateLock, ctrlLock, sensStopped,
                   ctrlStopped, idledEvent, est, sensSock, cmdSock, pending,
                   arrived, idleN, got, ctrlIter, ctrlErr, sendsAfterStop>>

SensBegin ==
    /\ sensPc = "s_begin"
    /\ sensWarned' = ~prepared
    /\ sensPc' = "s_timer_acq"
    /\ UNCHANGED <<objectVars, utilVars, auxVars, logStored, mainPc, ctrlPc, stateLock, ctrlLock, sensStopped,
                   ctrlStopped, idledEvent, est, sensSock, cmdSock, pending,
                   arrived, idleN, got, ctrlIter, ctrlErr, sendsAfterStop>>

\* `with self._lock:` entered by the sensor thread at from
SensAcquire(from, to) ==
    /\ sensPc = from
    /\ stateLock = "free"
    /\ stateLock' = "sensor"
    /\ sensPc' = to
    /\ UNCHANGED <<objectVars, utilVars, auxVars, logStored, sensWarned, mainPc, ctrlPc, ctrlLock, sensStopped,
                   ctrlStopped, idledEvent, est, sensSock, cmdSock, pending,
                   arrived, idleN, got, ctrlIter, ctrlErr, sendsAfterStop>>

\* the body of a with block that writes nothing shared (a timer call, the
\* copies for the logger), and the lock released
SensRelease(from, to) ==
    /\ sensPc = from
    /\ stateLock' = "free"
    /\ sensPc' = to
    /\ UNCHANGED <<objectVars, utilVars, auxVars, logStored, sensWarned, mainPc, ctrlPc, ctrlLock, sensStopped,
                   ctrlStopped, idledEvent, est, sensSock, cmdSock, pending,
                   arrived, idleN, got, ctrlIter, ctrlErr, sendsAfterStop>>

\* while not self._stopped.is_set()
SensLoop ==
    /\ sensPc = "s_loop"
    /\ sensPc' = IF sensStopped THEN "s_close" ELSE "s_t_acq"
    /\ UNCHANGED <<objectVars, utilVars, auxVars, logStored, sensWarned, mainPc, ctrlPc, stateLock, ctrlLock, sensStopped,
                   ctrlStopped, idledEvent, est, sensSock, cmdSock, pending,
                   arrived, idleN, got, ctrlIter, ctrlErr, sendsAfterStop>>

\* receive_as_list(): RuntimeError when no socket was created, OSError on
\* a closed socket, and otherwise a wait, without the lock, until a frame
\* is there
SensReceive ==
    /\ sensPc = "s_recv"
    /\ sensSock = "open" => pending > 0
    /\ sensPc' = IF sensSock = "open" THEN "s_u_acq" ELSE "s_crashed"
    /\ pending' = IF sensSock = "open" THEN pending - 1 ELSE pending
    /\ UNCHANGED <<objectVars, utilVars, auxVars, logStored, sensWarned, mainPc, ctrlPc, stateLock, ctrlLock, sensStopped,
                   ctrlStopped, idledEvent, est, sensSock, cmdSock,
                   arrived, idleN, got, ctrlIter, ctrlErr, sendsAfterStop>>

\* one assignment group of AffState.update, made under the lock
SensUpdateStep(from, to) ==
    /\ sensPc = from
    /\ est' = CASE from = "s_u1" -> EstStoreRaw(est)
                [] from = "s_u2" -> EstFilter(est)
                [] from = "s_u3" -> EstDifferentiate(est)
    /\ sensPc' = to
    /\ UNCHANGED <<objectVars, utilVars, auxVars, logStored, sensWarned, mainPc, ctrlPc, stateLock, ctrlLock, sensStopped,
                   ctrlStopped, idledEvent, sensSock, cmdSock, pending,
                   arrived, idleN, got, ctrlIter, ctrlErr, sendsAfterStop>>

\* logger.store(...) outside the lock
SensLog ==
    /\ sensPc = "s_log"
    /\ sensPc' = "s_loop"
    /\ UNCHANGED <<objectVars, utilVars, auxVars, logStored, sensWarned, mainPc, ctrlPc, stateLock, ctrlLock, sensStopped,
                   ctrlStopped, idledEvent, est, sensSock, cmdSock, pending,
                   arrived, idleN, got, ctrlIter, ctrlErr, sendsAfterStop>>

\* close_sensory_socket() after the loop
SensClose ==
    /\ sensPc = "s_close"
    /\ sensSock' = IF is_created(sensSock) THEN "closed" ELSE sensSock
    /\ sensPc' = "s_done"
    /\ UNCHANGED <<objectVars, utilVars, auxVars, logStored, sensWarned, mainPc, ctrlPc, stateLock, ctrlLock, sensStopped,
                   ctrlStopped, idledEvent, est, cmdSock, pending,
                   arrived, idleN, got, ctrlIter, ctrlErr, sendsAfterStop>>

SensorRun ==
    \/ SensBegin
    \/ SensAcquire("s_timer_acq", "s_timer")
    \/ SensRelease("s_timer", "s_loop")
    \/ SensLoop
    \/ SensAcquire("s_t_acq", "s_t")
    \/ SensRelease("s_t", "s_recv")
    \/ SensReceive
    \/ SensAcquire("s_u_acq", "s_u1")
    \/ SensUpdateStep("s_u1", "s_u2")
    \/ SensUpdateStep("s_u2", "s_u3")
    \/ SensUpdateStep("s_u3", "s_u4")
    \/ SensRelease("s_u4", "s_log")
    \/ SensLog
    \/ SensClose

(* ---- AffCtrlThread.run ---- *)

\* the control thread ends with exception e; a lock held in a with block
\* is released on the way out
CtrlRaise(e) ==
    /\ ctrlPc' = "c_crashed"
    /\ ctrlErr' = e
    /\ stateLock' = IF stateLock = "ctrl" THEN "free" ELSE stateLock

\* if not astate.is_alive(): if not astate.prepared(): astate.prepare()
CtrlBegin ==
    /\ ctrlPc = "c_begin"
    /\ ctrlPc' = IF SensorAlive THEN "c_timer"
                 ELSE IF prepared THEN "c_start" ELSE "c_idle"
    /\ idleN' = IF ~SensorAlive /\ ~prepared THEN 0 ELSE idleN
    /\ sensSock' = IF ~SensorAlive /\ ~prepared THEN SocketAfterIdleBegins
                   ELSE sensSock
    /\ UNCHANGED <<objectVars, utilVars, auxVars, logStored, sensWarned, mainPc, sensPc, stateLock, ctrlLock, sensStopped,
                   ctrlStopped, idledEvent, est, cmdSock, pending,
                   arrived, got, ctrlIter, ctrlErr, sendsAfterStop>>

\* one round of idle()'s loop run by the control thread.  idle() takes no
\* lock; its update is one step here because a control thread that idled
\* beside a running sensor loop never reaches its own loop (CtrlStartSensor
\* raises), so no copy is ever taken from such an update.
CtrlIdleReceive ==
    /\ ctrlPc = "c_idle"
    /\ idleN < NSample
    /\ sensSock = "open" => pending > 0
    /\ IF sensSock = "open"
       THEN /\ pending' = pending - 1
            /\ est' = EstUpdate(est)
            /\ idleN' = idleN + 1
            /\ UNCHANGED <<ctrlPc, ctrlErr, stateLock>>
       ELSE /\ CtrlRaise("OSError")
            /\ UNCHANGED <<pending, est, idleN>>
    /\ UNCHANGED <<objectVars, utilVars, auxVars, logStored, sensWarned, mainPc, sensPc, ctrlLock, sensStopped,
                   ctrlStopped, idledEvent, sensSock, cmdSock,
                   arrived, got, ctrlIter, sendsAfterStop>>

\* the end of idle() in the control thread
CtrlIdleFinish(ok) ==
    /\ ctrlPc = "c_idle"
    /\ idleN = NSample
    /\ IF ok
       THEN /\ est' = [est EXCEPT !.idled = TRUE]
            /\ ctrlPc' = "c_set"
            /\ UNCHANGED <<ctrlErr, stateLock>>
       ELSE /\ CtrlRaise("RuntimeError")
            /\ UNCHANGED est
    /\ UNCHANGED <<objectVars, utilVars, auxVars, logStored, sensWarned, mainPc, sensPc, ctrlLock, sensStopped,
                   ctrlStopped, idledEvent, sensSock, cmdSock, pending,
                   arrived, idleN, got, ctrlIter, sendsAfterStop>>

\* the last statement of the prepare() the control thread called
CtrlSetIdled ==
    /\ ctrlPc = "c_set"
    /\ idledEvent' = TRUE
    /\ ctrlPc' = "c_start"
    /\ UNCHANGED <<objectVars, utilVars, auxVars, logStored, sensWarned, mainPc, sensPc, stateLock, ctrlLock, sensStopped,
                   ctrlStopped, est, sensSock, cmdSock, pending,
                   arrived, idleN, got, ctrlIter, ctrlErr, sendsAfterStop>>

\* astate.start(): RuntimeError when the thread was started before
CtrlStartSensor ==
    /\ ctrlPc = "c_start"
    /\ IF sensPc = "s_none"
       THEN /\ sensPc' = "s_begin"
            /\ ctrlPc' = "c_timer"
            /\ UNCHANGED <<ctrlErr, stateLock>>
       ELSE /\ CtrlRaise("RuntimeError")
            /\ UNCHANGED sensPc
    /\ UNCHANGED <<objectVars, utilVars, auxVars, logStored, sensWarned, mainPc, ctrlLock, sensStopped,
                   ctrlStopped, idledEvent, est, sensSock, cmdSock, pending,
                   arrived, idleN, got, ctrlIter, sendsAfterStop>>

\* self._timer.start()
CtrlTimerStart ==
    /\ ctrlPc = "c_timer"
    /\ ctrlPc' = "c_loop"
    /\ UNCHANGED <<objectVars, utilVars, auxVars, logStored, sensWarned, mainPc, sensPc, stateLock, ctrlLock, sensStopped,
                   ctrlStopped, idledEvent, est, sensSock, cmdSock, pending,
                   arrived, idleN, got, ctrlIter, ctrlErr, sendsAfterStop>>

\* the loop test of an iteration that ignores the flag once the loop runs
CtrlLoopExits_FirstTestOnly == ctrlStopped /\ ctrlIter = 0

\* the loop test: while not self._stopped.is_set()
CtrlLoopExits == ctrlStopped

\* the loop test, and t = elapsed_time() of the iteration it begins
CtrlLoop ==
    /\ ctrlPc = "c_loop"
    /\ ~CtrlLoopExits => ctrlIter < MaxCtrlIter
    /\ ctrlPc' = IF CtrlLoopExits THEN "c_close" ELSE "c_raw_acq"
    /\ ctrlIter' = IF CtrlLoopExits THEN ctrlIter ELSE ctrlIter + 1
    /\ UNCHANGED <<objectVars, utilVars, auxVars, logStored, sensWarned, mainPc, sensPc, stateLock, ctrlLock, sensStopped,
                   ctrlStopped, idledEvent, est, sensSock, cmdSock, pending,
                   arrived, idleN, got, ctrlErr, sendsAfterStop>>

\* get_raw_states: with self._lock
CtrlRawAcquire ==
    /\ ctrlPc = "c_raw_acq"
    /\ stateLock = "free"
    /\ stateLock' = "ctrl"
    /\ ctrlPc' = "c_raw"
    /\ UNCHANGED <<objectVars, utilVars, auxVars, logStored, sensWarned, mainPc, sensPc, ctrlLock, sensStopped,
                   ctrlStopped, idledEvent, est, sensSock, cmdSock, pending,
                   arrived, idleN, got, ctrlIter, ctrlErr, sendsAfterStop>>

\* get_raw_states: raw_q, raw_dq, raw_pa, raw_pb are read (AttributeError
\* when _data_ndarray or _dq was never assigned) and the lock released
CtrlRawRead ==
    /\ ctrlPc = "c_raw"
    /\ IF est.data = 0 \/ est.dq = 0
       THEN /\ CtrlRaise("AttributeError")
            /\ UNCHANGED got
       ELSE /\ got' = [got EXCEPT !.raw = est.data]
            /\ stateLock' = "free"
            /\ ctrlPc' = "c_st_acq"
            /\ UNCHANGED ctrlErr
    /\ UNCHANGED <<objectVars, utilVars, auxVars, logStored, sensWarned, mainPc, sensPc, ctrlLock, sensStopped,
                   ctrlStopped, idledEvent, est, sensSock, cmdSock, pending,
                   arrived, idleN, ctrlIter, sendsAfterStop>>

\* a get_states that reads without taking the lock
get_states_acquire_NoLock ==
    /\ ctrlPc = "c_st_acq"
    /\ ctrlPc' = "c_q"
    /\ UNCHANGED stateLock

\* get_states: with self._lock
get_states_acquire ==
    /\ ctrlPc = "c_st_acq"
    /\ stateLock = "free"
    /\ stateLock' = "ctrl"
    /\ ctrlPc' = "c_q"

CtrlStatesAcquire ==
    /\ get_states_acquire
    /\ UNCHANGED <<objectVars, utilVars, auxVars, logStored, sensWarned, mainPc, sensPc, ctrlLock, sensStopped,
                   ctrlStopped, idledEvent, est, sensSock, cmdSock, pending,
                   arrived, idleN, got, ctrlIter, ctrlErr, sendsAfterStop>>

\* get_states: np.copy(s.q), np.copy(s.dq), np.copy(s.pa), np.copy(s.pb),
\* one after the other; the lock is released after the last
CtrlStatesRead(from, to) ==
    /\ ctrlPc = from
    /\ IF (from = "c_dq" /\ est.dq = 0) \/ (from # "c_dq" /\ est.filt = 0)
       THEN /\ CtrlRaise("AttributeError")
            /\ UNCHANGED got
       ELSE /\ got' = CASE from = "c_q" -> [got EXCEPT !.q = est.filt]
                        [] from = "c_dq" -> [got EXCEPT !.dq = est.dq]
                        [] from = "c_pa" -> [got EXCEPT !.pa = est.filt]
                        [] from = "c_pb" -> [got EXCEPT !.pb = est.filt]
            /\ stateLock' = IF from = "c_pb" THEN "free" ELSE stateLock
            /\ ctrlPc' = to
            /\ UNCHANGED ctrlErr
    /\ UNCHANGED <<objectVars, utilVars, auxVars, logStored, sensWarned, mainPc, sensPc, ctrlLock, sensStopped,
                   ctrlStopped, idledEvent, est, sensSock, cmdSock, pending,
                   arrived, idleN, ctrlIter, sendsAfterStop>>

\* with self._lock: (the control thread's own lock)
CtrlLockAcquire ==
    /\ ctrlPc = "c_ctl_acq"
    /\ ctrlLock = "free"
    /\ ctrlLock' = "ctrl"
    /\ ctrlPc' = "c_update"
    /\ UNCHANGED <<objectVars, utilVars, auxVars, logStored, sensWarned, mainPc, sensPc, stateLock, sensStopped,
                   ctrlStopped, idledEvent, est, sensSock, cmdSock, pending,
                   arrived, idleN, got, ctrlIter, ctrlErr, sendsAfterStop>>

\* current_time, qdes, dqdes and actrl.update(t, q, dq, pa, pb, qdes, dqdes)
\* with the copies taken, and the lock released
CtrlThreadUpdate ==
    /\ ctrlPc = "c_update"
    /\ ctrlLock' = "free"
    /\ ctrlPc' = "c_send"
    /\ UNCHANGED <<objectVars, utilVars, auxVars, logStored, sensWarned, mainPc, sensPc, stateLock, sensStopped,
                   ctrlStopped, idledEvent, est, sensSock, cmdSock, pending,
                   arrived, idleN, got, ctrlIter, ctrlErr, sendsAfterStop>>

\* send_commands(ca, cb): OSError on a closed socket
CtrlSend ==
    /\ ctrlPc = "c_send"
    /\ IF cmdSock = "open"
       THEN /\ sendsAfterStop' = sendsAfterStop + (IF ctrlStopped THEN 1 ELSE 0)
            /\ ctrlPc' = "c_block"
            /\ UNCHANGED <<ctrlErr, stateLock>>
       ELSE /\ CtrlRaise("OSError")
            /\ UNCHANGED sendsAfterStop
    /\ UNCHANGED <<objectVars, utilVars, auxVars, logStored, sensWarned, mainPc, sensPc, ctrlLock, sensStopped,
                   ctrlStopped, idledEvent, est, sensSock, cmdSock, pending,
                   arrived, idleN, got, ctrlIter>>

\* logger.store(...), which appends a row when there is a logger (the
\* AttributeError of a thread without one is passed over), and
\* self._timer.block()
CtrlBlock ==
    /\ ctrlPc = "c_block"
    /\ logStored' = IF hasLogger THEN logStored + 1 ELSE logStored
    /\ ctrlPc' = "c_loop"
    /\ UNCHANGED <<objectVars, utilVars, auxVars, sensWarned, mainPc, sensPc, stateLock, ctrlLock, sensStopped,
                   ctrlStopped, idledEvent, est, sensSock, cmdSock, pending,
                   arrived, idleN, got, ctrlIter, ctrlErr, sendsAfterStop>>

\* close_command_socket() after the loop
CtrlClose ==
    /\ ctrlPc = "c_close"
    /\ cmdSock' = IF is_created(cmdSock) THEN "closed" ELSE cmdSock
    /\ ctrlPc' = "c_done"
    /\ UNCHANGED <<objectVars, utilVars, auxVars, logStored, sensWarned, mainPc, sensPc, stateLock, ctrlLock, sensStopped,
                   ctrlStopped, idledEvent, est, sensSock, pending,
                   arrived, idleN, got, ctrlIter, ctrlErr, sendsAfterStop>>

ControlRun ==
    \/ CtrlBegin
    \/ CtrlIdleReceive
    \/ \E ok \in BOOLEAN : CtrlIdleFinish(ok)
    \/ CtrlSetIdled
    \/ CtrlStartSensor
    \/ CtrlTimerStart
    \/ CtrlLoop
    \/ CtrlRawAcquire
    \/ CtrlRawRead
    \/ CtrlStatesAcquire
    \/ CtrlStatesRead("c_q", "c_dq")
    \/ CtrlStatesRead("c_dq", "c_pa")
    \/ CtrlStatesRead("c_pa", "c_pb")
    \/ CtrlStatesRead("c_pb", "c_ctl_acq")
    \/ CtrlLockAcquire
    \/ CtrlThreadUpdate
    \/ CtrlSend
    \/ CtrlBlock
    \/ CtrlClose

MainRun ==
    \/ MainPrepare
    \/ MainIdleReceive
    \/ \E ok \in BOOLEAN : MainIdleFinish(ok)
    \/ MainSetIdled
    \/ MainStartSensor
    \/ MainStartCtrl
    \/ MainStopSensor
    \/ MainStopCtrl

ThreadsInit ==
    /\ UtilIdle
    /\ ThreadIdle
    /\ FilterIdle
    /\ StateIdle
    /\ CtrlIdle

ThreadsNext == FrameArrives \/ MainRun \/ SensorRun \/ ControlRun

SpecThreads == ThreadsInit /\ [][ThreadsNext]_vars

\* the same threads, the control thread having a logger, with a main thread
\* that stops and joins it
MainLogRun ==
    \/ MainPrepare
    \/ MainIdleReceive
    \/ \E ok \in BOOLEAN : MainIdleFinish(ok)
    \/ MainSetIdled
    \/ MainStartSensor
    \/ MainStartCtrl
    \/ MainStopSensor
    \/ \E by \in {"stop", "join"} : MainCtrlDump(by)
    \/ MainCtrlSetStopped
    \/ MainJoinReturn

LogInit ==
    /\ UtilIdle
    /\ ThreadIdleWith(TRUE)
    /\ FilterIdle
    /\ StateIdle
    /\ CtrlIdle

LogNext == FrameArrives \/ MainLogRun \/ SensorRun \/ ControlRun

SpecLog == LogInit /\ [][LogNext]_vars

\* the same threads when the control thread is made without a sensor thread
\* of the caller's: it creates one, prepares and starts it in run().  The
\* main thread starts and joins the control thread, and reaches the sensor
\* thread through the state property only to stop it.
MainJoinRun ==
    \/ MainStartCtrl
    \/ MainStopSensor
    \/ MainCtrlDump("join")
    \/ MainCtrlSetStopped
    \/ MainJoinReturn

JoinNext == FrameArrives \/ MainJoinRun \/ SensorRun \/ ControlRun

SpecJoin == LogInit /\ [][JoinNext]_vars

\* the same threads under fair scheduling: the control thread is started
\* and idles by itself, the main thread waits for the idling without a
\* timeout.  A thread that can take a step takes one in the end, and a
\* frame that can arrive does.
MainLiveRun ==
    \/ MainStartCtrl
    \/ MainWaitForIdling("forever")
    \/ MainWaitReturn
    \/ MainStopSensor
    \/ MainStopCtrl

LiveNext == FrameArrives \/ MainLiveRun \/ SensorRun \/ ControlRun

Fairness ==
    /\ WF_vars(FrameArrives)
    /\ WF_vars(MainWaitReturn)
    /\ SF_vars(SensorRun)
    /\ SF_vars(ControlRun)

SpecLive == ThreadsInit /\ [][LiveNext]_vars /\ Fairness

\* the same threads, with a main thread that also takes the feedback scheme
\* from the control thread and sets its gains
SchemeRefRun == MainGetFeedbackScheme \/ MainSetGain

SchemeRefNext == FrameArrives \/ MainRun \/ SchemeRefRun \/ SensorRun \/ ControlRun

SpecSchemeRef == ThreadsInit /\ [][SchemeRefNext]_vars

\* the same threads, with a main thread that also waits for the idling
WaitRun ==
    \/ \E timeout \in WaitTimeouts : MainWaitForIdling(timeout)
    \/ WaitTimeoutElapses
    \/ MainWaitReturn

WaitNext == FrameArrives \/ MainRun \/ WaitRun \/ SensorRun \/ ControlRun

SpecWait == ThreadsInit /\ [][WaitNext]_vars

\* the same threads, the control thread creating and starting the sensor
\* thread itself, with a main thread that reads the estimator through
\* get_states().  idle() runs in the control thread and takes no lock: the
\* assignment groups of its update calls are steps of their own here.

\* what the accessor and idle()'s update steps leave alone
accessFrame == <<objectVars, timeVars, runnerVars, fArgs, auxVars, logStored,
                 sensWarned, sensPc, ctrlLock, sensStopped, ctrlStopped,
                 idledEvent, sensSock, cmdSock, arrived, got, ctrlIter,
                 ctrlErr, sendsAfterStop>>

\* get_states() called by the main thread: with self._lock
MainStatesAcquire ==
    /\ mainPc = "ready"
    /\ stateLock = "free"
    /\ stateLock' = "main"
    /\ mainPc' = "m_states"
    /\ UNCHANGED <<accessFrame, ctrlPc, est, pending, idleN, fOut>>

\* the copies of s.q, s.dq, s.pa and s.pb (AttributeError before the first
\* update has assigned them), and the lock released
MainStatesRead ==
    /\ mainPc = "m_states"
    /\ fOut' = IF est.filt = 0 \/ est.dq = 0
               THEN [raised |-> TRUE, q |-> 0, dq |-> 0]
               ELSE [raised |-> FALSE, q |-> est.filt, dq |-> est.dq]
    /\ stateLock' = "free"
    /\ mainPc' = "ready"
    /\ UNCHANGED <<accessFrame, ctrlPc, est, pending, idleN>>

\* one round of idle()'s loop in the control thread: the blocking receive
IdleTakeFrame ==
    /\ ctrlPc = "c_idle"
    /\ idleN < NSample
    /\ sensSock = "open"
    /\ pending > 0
    /\ pending' = pending - 1
    /\ ctrlPc' = "c_i_u1"
    /\ UNCHANGED <<accessFrame, mainPc, stateLock, est, idleN, fOut>>

\* one assignment group of the update idle() calls: no lock is taken
IdleUpdateStep(from, to) ==
    /\ ctrlPc = from
    /\ est' = CASE from = "c_i_u1" -> EstStoreRaw(est)
                [] from = "c_i_u2" -> EstFilter(est)
                [] from = "c_i_u3" -> EstDifferentiate(est)
    /\ ctrlPc' = to
    /\ idleN' = IF to = "c_idle" THEN idleN + 1 ELSE idleN
    /\ UNCHANGED <<accessFrame, mainPc, stateLock, pending, fOut>>

AccessRun ==
    \/ MainStartCtrl
    \/ MainStatesAcquire
    \/ MainStatesRead
    \/ MainStopSensor
    \/ MainStopCtrl

ControlAccessRun ==
    \/ CtrlBegin
    \/ IdleTakeFrame
    \/ IdleUpdateStep("c_i_u1", "c_i_u2")
    \/ IdleUpdateStep("c_i_u2", "c_i_u3")
    \/ IdleUpdateStep("c_i_u3", "c_idle")
    \/ \E ok \in BOOLEAN : CtrlIdleFinish(ok)
    \/ CtrlSetIdled
    \/ CtrlStartSensor
    \/ CtrlTimerStart
    \/ CtrlLoop
    \/ CtrlRawAcquire
    \/ CtrlRawRead
    \/ CtrlStatesAcquire
    \/ CtrlStatesRead("c_q", "c_dq")
    \/ CtrlStatesRead("c_dq", "c_pa")
    \/ CtrlStatesRead("c_pa", "c_pb")
    \/ CtrlStatesRead("c_pb", "c_ctl_acq")
    \/ CtrlLockAcquire
    \/ CtrlThreadUpdate
    \/ CtrlSend
    \/ CtrlBlock
    \/ CtrlClose

AccessNext == FrameArrives \/ AccessRun \/ SensorRun \/ ControlAccessRun

SpecAccess == ThreadsInit /\ [][AccessNext]_vars

(* ---- AffPosCtrlThread.run ---- *)

\* the loop of the position controller's thread differs from
\* AffCtrlThread.run in where it takes its own lock: around timer.start(),
\* around elapsed_time() and around timer.block()
posFrame == <<objectVars, utilVars, auxVars, sensWarned, mainPc, sensPc,
              stateLock, sensStopped, ctrlStopped, idledEvent, est, sensSock,
              cmdSock, pending, arrived, idleN, got, ctrlErr, sendsAfterStop>>

\* with self._lock: self._timer.start()
PosTimerStart ==
    /\ ctrlPc = "c_timer"
    /\ ctrlLock = "free"
    /\ ctrlPc' = "c_loop"
    /\ UNCHANGED <<posFrame, ctrlLock, ctrlIter, logStored>>

\* the loop test, and with self._lock: t = self._timer.elapsed_time()
PosLoop ==
    /\ ctrlPc = "c_loop"
    /\ ~CtrlLoopExits => ctrlIter < MaxCtrlIter /\ ctrlLock = "free"
    /\ ctrlPc' = IF CtrlLoopExits THEN "c_close" ELSE "c_raw_acq"
    /\ ctrlIter' = IF CtrlLoopExits THEN ctrlIter ELSE ctrlIter + 1
    /\ UNCHANGED <<posFrame, ctrlLock, logStored>>

\* logger.store(...) of the cycle
PosStore ==
    /\ ctrlPc = "c_block"
    /\ logStored' = IF hasLogger THEN logStored + 1 ELSE logStored
    /\ ctrlPc' = "c_blk_acq"
    /\ UNCHANGED <<posFrame, ctrlLock, ctrlIter>>

\* with self._lock: and timer.block() goes to sleep inside it
PosBlockAcquire ==
    /\ ctrlPc = "c_blk_acq"
    /\ ctrlLock = "free"
    /\ ctrlLock' = "ctrl"
    /\ ctrlPc' = "c_sleep"
    /\ UNCHANGED <<posFrame, ctrlIter, logStored>>

\* timer.block() returns at the end of the period and the lock is released
PosBlockReturns ==
    /\ ctrlPc = "c_sleep"
    /\ ctrlLock' = "free"
    /\ ctrlPc' = "c_loop"
    /\ UNCHANGED <<posFrame, ctrlIter, logStored>>

PosControlRun ==
    \/ CtrlBegin
    \/ CtrlIdleReceive
    \/ \E ok \in BOOLEAN : CtrlIdleFinish(ok)
    \/ CtrlSetIdled
    \/ CtrlStartSensor
    \/ PosTimerStart
    \/ PosLoop
    \/ CtrlRawAcquire
    \/ CtrlRawRead
    \/ CtrlStatesAcquire
    \/ CtrlStatesRead("c_q", "c_dq")
    \/ CtrlStatesRead("c_dq", "c_pa")
    \/ CtrlStatesRead("c_pa", "c_pb")
    \/ CtrlStatesRead("c_pb", "c_ctl_acq")
    \/ CtrlLockAcquire
    \/ CtrlThreadUpdate
    \/ CtrlSend
    \/ PosStore
    \/ PosBlockAcquire
    \/ PosBlockReturns
    \/ CtrlClose

PosNext == FrameArrives \/ MainRun \/ SensorRun \/ PosControlRun

SpecPos == ThreadsInit /\ [][PosNext]_vars

(* ---- the trajectory callbacks of the control thread ---- *)

\* A callback is known by the number of the set_trajectory call that
\* installed it (0: reset_trajectory() of the constructor); the value it
\* returns is the pair of that number and the time it was called with.
\* fOut holds the thread's _qdes_func, _dqdes_func and the locals of the
\* cycle, fArgs the arguments of the set_trajectory call in progress.
trajFrame == <<objectVars, timeVars, runnerVars, auxVars, logStored,
               sensWarned, sensPc, stateLock, sensStopped, ctrlStopped,
               idledEvent, est, sensSock, cmdSock, pending, arrived, idleN,
               got, ctrlIter, ctrlErr, sendsAfterStop>>

TrajTimes == 0 .. MaxTrajT

NotEvaluated == [f |-> 0, t |-> 0, n |-> 0]

\* AffCtrlThread(...) and start(): reset_trajectory() installs the first
\* pair of callbacks
TrajConstruct ==
    /\ fOut = <<>>
    /\ ctrlPc = "c_none"
    /\ fOut' = [qdes_func |-> 0, dqdes_func |-> 0, t |-> 0,
                qdes |-> NotEvaluated, dqdes |-> NotEvaluated, calls |-> 0]
    /\ ctrlPc' = "t_loop"
    /\ UNCHANGED <<trajFrame, mainPc, ctrlLock, fArgs>>

\* the with statement of set_trajectory in a variant that does not wait
set_trajectory_enters_Unlocked(lock) == TRUE

\* set_trajectory: with self._lock
set_trajectory_enters(lock) == lock = "free"

TrajSetBegin ==
    /\ fOut # <<>>
    /\ mainPc = "ready"
    /\ fOut.calls < MaxTrajCalls
    /\ set_trajectory_enters(ctrlLock)
    /\ ctrlLock' = IF ctrlLock = "free" THEN "main" ELSE ctrlLock
    /\ fArgs' = [qdes_func |-> fOut.calls + 1, dqdes_func |-> fOut.calls + 1,
                 locked |-> ctrlLock = "free"]
    /\ fOut' = [fOut EXCEPT !.calls = @ + 1]
    /\ mainPc' = "m_traj_q"
    /\ UNCHANGED <<trajFrame, ctrlPc>>

\* self._qdes_func = qdes_func
TrajSetQdes ==
    /\ mainPc = "m_traj_q"
    /\ fOut' = [fOut EXCEPT !.qdes_func = fArgs.qdes_func]
    /\ mainPc' = "m_traj_dq"
    /\ UNCHANGED <<trajFrame, ctrlPc, ctrlLock, fArgs>>

\* self._dqdes_func = dqdes_func, and the with block is left
TrajSetDqdes ==
    /\ mainPc = "m_traj_dq"
    /\ fOut' = [fOut EXCEPT !.dqdes_func = fArgs.dqdes_func]
    /\ ctrlLock' = IF fArgs.locked THEN "free" ELSE ctrlLock
    /\ mainPc' = "ready"
    /\ UNCHANGED <<trajFrame, ctrlPc, fArgs>>

\* a control cycle begins: t = elapsed_time() and the copies of the states
TrajCycleBegin(t) ==
    /\ ctrlPc = "t_loop"
    /\ fOut' = [fOut EXCEPT !.t = t, !.qdes = NotEvaluated,
                            !.dqdes = NotEvaluated]
    /\ ctrlPc' = "t_acq"
    /\ UNCHANGED <<trajFrame, mainPc, ctrlLock, fArgs>>

\* with self._lock: self._current_time = t
TrajCycleAcquire ==
    /\ ctrlPc = "t_acq"
    /\ ctrlLock = "free"
    /\ ctrlLock' = "ctrl"
    /\ ctrlPc' = "t_qdes"
    /\ UNCHANGED <<trajFrame, mainPc, fArgs, fOut>>

\* qdes = self._qdes_func(t)
TrajEvalQdes ==
    /\ ctrlPc = "t_qdes"
    /\ fOut' = [fOut EXCEPT !.qdes = [f |-> fOut.qdes_func, t |-> fOut.t,
                                      n |-> fOut.qdes.n + 1]]
    /\ ctrlPc' = "t_dqdes"
    /\ UNCHANGED <<trajFrame, mainPc, ctrlLock, fArgs>>

\* dqdes = self._dqdes_func(t)
TrajEvalDqdes ==
    /\ ctrlPc = "t_dqdes"
    /\ fOut' = [fOut EXCEPT !.dqdes = [f |-> fOut.dqdes_func, t |-> fOut.t,
                                       n |-> fOut.dqdes.n + 1]]
    /\ ctrlPc' = "t_update"
    /\ UNCHANGED <<trajFrame, mainPc, ctrlLock, fArgs>>

\* actrl.update(t, q, dq, pa, pb, qdes, dqdes), the lock released, and the
\* rest of the cycle: send_commands, logger.store, timer.block
TrajCycleEnd ==
    /\ ctrlPc = "t_update"
    /\ ctrlLock' = "free"
    /\ ctrlPc' = "t_loop"
    /\ UNCHANGED <<trajFrame, mainPc, fArgs, fOut>>

TrajNext ==
    \/ TrajConstruct
    \/ TrajSetBegin
    \/ TrajSetQdes
    \/ TrajSetDqdes
    \/ \E t \in TrajTimes : TrajCycleBegin(t)
    \/ TrajCycleAcquire
    \/ TrajEvalQdes
    \/ TrajEvalDqdes
    \/ TrajCycleEnd

SpecTraj == UtilInit /\ [][TrajNext]_vars

-----------------------------------------------------------------------------
(* C1 *)

\* the control loop holds the four copies of an iteration: get_states has
\* returned and the next iteration has not begun
CopiesTaken == ctrlPc \in {"c_ctl_acq", "c_update", "c_send", "c_block"}

\* C1: in every control iteration, under every interleaving of the sensor
\* loop and the control loop, the q, dq, pa and pb handed to AffCtrl.update
\* were all written by one and the same estimator update.
C1_StatesFromOneUpdate ==
    CopiesTaken => (got.q = got.dq /\ got.dq = got.pa /\ got.pa = got.pb)

\* the second iteration is about to call update with the copies of an update
\* the sensor loop made between this iteration's get_raw_states and
\* get_states
C1_Witness ==
    /\ ctrlPc = "c_update"
    /\ ctrlIter = 2
    /\ got.raw < got.q
    /\ got.q = est.n_steps

-----------------------------------------------------------------------------
(* C2 *)

\* C2: in no startup order does the control loop's read of the estimator
\* raise; in particular not when the sensor thread was started without
\* prepare() and has received no frame yet.
C2_FirstReadNeverRaises == ctrlErr # "AttributeError"

-----------------------------------------------------------------------------
(* C3 *)

\* the control thread is inside its loop
InCtrlLoop ==
    ctrlPc \in {"c_loop", "c_raw_acq", "c_raw", "c_st_acq", "c_q", "c_dq",
                "c_pa", "c_pb", "c_ctl_acq", "c_update", "c_send", "c_block"}

\* C3: after stop() has set the flag at most one more command frame is
\* sent; the command socket is closed only once the loop has been left, so
\* nothing is sent after it; a run() that returns has seen the flag and
\* closed the socket; and a stopped loop is never stuck: the control
\* thread has a step to take unless it waits for the state lock, which the
\* sensor thread holds.
C3_CooperativeCancellation ==
    /\ sendsAfterStop <= 1
    /\ cmdSock = "closed" => ctrlPc = "c_done"
    /\ ctrlPc = "c_done" => (ctrlStopped /\ cmdSock = "closed")
    /\ (ctrlStopped /\ InCtrlLoop) => (ENABLED ControlRun \/ stateLock = "sensor")

\* stop() came in the middle of an iteration: that iteration's frame was
\* sent, the loop was left and the socket closed
C3_Witness ==
    /\ ctrlPc = "c_done"
    /\ sendsAfterStop = 1
    /\ cmdSock = "closed"

-----------------------------------------------------------------------------
(* C4 *)

\* C4: once stop() has returned, the sensor thread is not left waiting in
\* receive_as_list() for a frame that does not come: the sensory socket
\* it would wait on is no longer open, stop having closed it, and that
\* ends the wait.
C4_StopUnblocksReceive ==
    (sensStopped /\ sensPc = "s_recv" /\ pending = 0) => sensSock # "open"

-----------------------------------------------------------------------------
(* C5 *)

\* joint i (counted from 0) is the index of a row of the table
Listed(c, i) == \E r \in 1..Len(c.inactive_joints) : c.inactive_joints[r][1] = i

\* the last row written for joint i
LastRow(c, i) ==
    LET rs == {r \in 1..Len(c.inactive_joints) : c.inactive_joints[r][1] = i}
    IN  c.inactive_joints[CHOOSE r \in rs : \A r2 \in rs : r2 <= r]

\* AffCtrl.scale of the single value x
ScaleOne(c, x) == ScaleVec(c, Arr(<<x>>)).v[1]

\* what C5 says update returns at joint i
C5_Expected(c, i) ==
    IF Listed(c, i)
    THEN <<ScaleOne(c, RInt(LastRow(c, i)[2])), ScaleOne(c, RInt(LastRow(c, i)[3]))>>
    ELSE <<ScaleOne(c, cScheme[1].v[i + 1]), ScaleOne(c, cScheme[2].v[i + 1])>>

\* C5: whenever update returns, the command pair at every joint the table
\* lists is the scale of that joint's override pressures, and at every joint
\* the table does not list it is the scale of the scheme's command.
C5_MaskThenScale ==
    (cOut # <<>> /\ ~IsErr(cOut[1])) =>
        \A i \in 0..(DOF - 1) :
            <<cOut[1].v[i + 1], cOut[2].v[i + 1]>> = C5_Expected(actrl, i)

\* the same statement for the tables whose indices all lie in [0, dof): it
\* holds there, so update does compose scheme.update, mask and scale in
\* that order
C5_MaskThenScale_IndicesInRange ==
    (\A r \in 1..Len(actrl.inactive_joints) :
        actrl.inactive_joints[r][1] \in 0..(DOF - 1)) => C5_MaskThenScale

-----------------------------------------------------------------------------
(* C6, C7 *)

\* kP*(qdes - q) + kD*(dqdes - dq) + kI*accum_qerr of the arguments of the
\* last update call, accum_qerr being the scheme's accumulator after it
PositionalFeedbackOfArgs ==
    LET fb == actrl.feedback_scheme
    IN  NAdd(NAdd(NMul(fb.kP, NSub(cArgs[5], cArgs[1])),
                  NMul(fb.kD, NSub(cArgs[6], cArgs[2]))),
             NMul(fb.kI, fb.accum_qerr))

\* press_gain*(pa - pb) of the arguments of the last update call, pa - pb
\* when press_gain is unset
PressureFeedbackOfArgs ==
    LET fb == actrl.feedback_scheme
    IN  IF IsSet(fb.press_gain) THEN NMul(fb.press_gain, NSub(cArgs[3], cArgs[4]))
        ELSE NSub(cArgs[3], cArgs[4])

\* C6: with the PID scheme, no inactive joint and no input range, update
\* returns (stiff + e, stiff - e), e being the positional feedback of its
\* arguments q, dq, qdes, dqdes (so pa and pb have no effect).
C6_PIDLaw ==
    (/\ cOut # <<>>
     /\ actrl.feedback_scheme.cls = "PID"
     /\ actrl.inactive_joints = <<>>
     /\ actrl.input_range = <<>>) =>
        cOut = <<NAdd(actrl.feedback_scheme.stiff, PositionalFeedbackOfArgs),
                 NSub(actrl.feedback_scheme.stiff, PositionalFeedbackOfArgs)>>

\* C7: with the PIDF scheme, no inactive joint and no input range, update
\* returns (stiff + e - d, stiff - e + d), d being press_gain*(pa - pb) of
\* its arguments pa and pb and e the positional feedback of q, dq, qdes,
\* dqdes.
C7_PIDFLaw ==
    (/\ cOut # <<>>
     /\ actrl.feedback_scheme.cls = "PIDF"
     /\ actrl.inactive_joints = <<>>
     /\ actrl.input_range = <<>>) =>
        cOut = <<NSub(NAdd(actrl.feedback_scheme.stiff, PositionalFeedbackOfArgs),
                      PressureFeedbackOfArgs),
                 NAdd(NSub(actrl.feedback_scheme.stiff, PositionalFeedbackOfArgs),
                      PressureFeedbackOfArgs)>>

-----------------------------------------------------------------------------
(* C8 *)

RECURSIVE SumSeq(_)
SumSeq(s) == IF s = <<>> THEN RInt(0) ELSE RAdd(Head(s).v[1], SumSeq(Tail(s)))

\* the last min(k, n) elements of s
LastN(s, n) == IF Len(s) <= n THEN s ELSE SubSeq(s, Len(s) - n + 1, Len(s))

\* C8: after the k-th update of a freshly constructed N-point Filter the value
\* returned is (the sum of the last min(k, N) inputs) / N, the re-sum of a
\* window that started as N zeros.
C8_IncrementalSumIsWindowSum ==
    filtHist # <<>> =>
        filtOut = Scalar(RDiv(SumSeq(LastN(filtHist, filt.n_points)),
                              RInt(filt.n_points)))

\* the window has filled and slid: more updates than points, and the sample
\* that left the window was not zero
C8_Witness ==
    /\ Len(filtHist) > filt.n_points
    /\ filt.n_points > 1
    /\ filtHist[1] # Scalar(RInt(0))
    /\ filtOut # Scalar(RInt(0))

-----------------------------------------------------------------------------
(* C9 *)

\* C9: after the first update that returns, dq is the zero vector of q's
\* shape; after every later one it is (q_k - q_(k-1)) / dt, q_k and q_(k-1)
\* being the filtered positions the last two returning updates produced.
C9_VelocityIsFiniteDifference ==
    aDone # <<>> =>
        IF Len(aDone) = 1
        THEN astate.dq = ZerosLike(aDone[1])
        ELSE astate.dq = NDiv(NSub(aDone[1], aDone[2]), Scalar(astate.dt))

\* two updates have returned, the position moved, and a third has returned
\* after it with a non-zero velocity
C9_Witness ==
    /\ astate.n_steps >= 3
    /\ Len(aDone) = 2
    /\ aDone[1] # aDone[2]
    /\ astate.dq # ZerosLike(aDone[1])
    /\ ~aRaised

-----------------------------------------------------------------------------
(* C10 *)

-----------------------------------------------------------------------------
(* C11 *)

\* the sensor thread is in its main loop and has taken a frame from the
\* socket in the current iteration
SensConsumedFrame ==
    sensPc \in {"s_u_acq", "s_u1", "s_u2", "s_u3", "s_u4", "s_log"}

\* C11 as stated: the sensor thread never consumes a frame in its main
\* loop while the estimator's idled() is false.
C11_LoopOnlyAfterIdle == SensConsumedFrame => est.idled

\* C11: run() does not wait for the calibration; it tests prepared() once,
\* warns when it is false and enters the loop.  A frame consumed in the
\* loop of a run() that gave no warning finds idled() true.
C11_UnwarnedLoopIsIdled == (SensConsumedFrame /\ ~sensWarned) => est.idled

\* a prepared sensor thread has taken a frame in its loop
C11_Witness == SensConsumedFrame /\ ~sensWarned /\ sensPc = "s_u1"

-----------------------------------------------------------------------------
(* C12 *)

\* C12: whenever the idling Event is set, idle() has returned without error
\* (idled() is true) and the estimator has been updated with the n_sample
\* calibration frames; an Event that is set stays set.
C12_ReadyOnlyAfterCalibration ==
    /\ [](idledEvent => (est.idled /\ est.n_steps >= NSample))
    /\ [][idledEvent => idledEvent']_vars

\* prepare() has just set the Event
C12_Witness == idledEvent /\ mainPc = "ready" /\ sensPc = "s_none" /\ ctrlPc = "c_none"

-----------------------------------------------------------------------------
(* C13 *)

\* C13: a wait_for_idling(timeout) whose time has passed can return, whatever
\* the threads are doing; and where the Event was never set (no prepare()
\* has succeeded) the value a call returned is False.  Event.wait has no
\* raising path.
C13_WaitTimesOut ==
    /\ (mainPc = "m_wait" /\ waitCall.timeout = "elapsed") => ENABLED MainWaitReturn
    /\ (waitCall.result # "none" /\ ~idledEvent) => waitCall.result = "False"

\* a call on threads that were never started nor prepared has returned
\* False after its timeout
C13_Witness ==
    /\ waitCall.result = "False"
    /\ sensPc = "s_none" /\ ctrlPc = "c_none"
    /\ ~est.idled /\ sensSock = "none"

-----------------------------------------------------------------------------
(* C14 *)

\* C14: once join() has returned, every row the control loop stored in its
\* logger is in the dumped file.
C14_JoinFlushesLog == ctrlJoined => logDumped = logStored

-----------------------------------------------------------------------------
(* C15 *)

\* C15: what an accessor of the thread objects returned cannot be used to
\* change shared state without the lock: while the control loop holds its
\* lock around AffCtrl.update, the gains that update reads do not change.
C15_GainsFixedUnderLock == [][ctrlLock = "ctrl" => gains' = gains]_vars

-----------------------------------------------------------------------------
(* C16 *)

\* C16: after any sequence of set, add and reset calls (load_inactive_joints
\* is a sequence of add calls) the table holds at most one row per joint
\* index.
C16_TableUniqueByIndex ==
    \A i, j \in 1..Len(actrl.inactive_joints) :
        i # j => actrl.inactive_joints[i][1] # actrl.inactive_joints[j][1]

-----------------------------------------------------------------------------
(* C17 *)

\* C17: every joint index stored in the table lies in [0, dof).
C17_IndicesInRange ==
    \A i \in 1..Len(actrl.inactive_joints) :
        /\ 0 <= actrl.inactive_joints[i][1]
        /\ actrl.inactive_joints[i][1] < actrl.dof

-----------------------------------------------------------------------------
(* C18 *)

\* C18: no set_inactive_joints or add_inactive_joints call raises, whatever
\* the pattern string.
C18_PatternNeverRaises == ~cTable.raised

-----------------------------------------------------------------------------
(* C19 *)

\* C19: set_inactive_joints(pattern, p) with a well-formed pattern string
\* completes and leaves as table exactly the rows (i, p, p) for the indices
\* i of the pattern's tokens, in order, whatever the table held before.
C19_SetResolvesWellFormedPattern ==
    (/\ cTable.op = "set"
     /\ cTable.pattern.type = "str"
     /\ cTable.pressure # NoPressure
     /\ \A tok \in {split(cTable.pattern.val, ",")[n] :
                       n \in 1..Len(split(cTable.pattern.val, ","))} :
            WellFormedToken(tok))
    => LET index == ConcatIndices(split(cTable.pattern.val, ","), actrl.dof)
       IN  /\ ~cTable.raised
           /\ actrl.inactive_joints =
                  [i \in 1..Len(index) |-> <<index[i], cTable.pressure, cTable.pressure>>]

\* set_inactive_joints("0-", p) has listed every joint
C19_Witness ==
    /\ cTable.op = "set"
    /\ cTable.pattern = PyStr(<<"0", "-">>)
    /\ Len(actrl.inactive_joints) = actrl.dof
    /\ cTable.pressure = ConfPressure

-----------------------------------------------------------------------------
(* C20 *)

\* the elements of a sequence
Elements(seq) == {seq[i] : i \in 1..Len(seq)}

-----------------------------------------------------------------------------
(* C21 *)

-----------------------------------------------------------------------------
(* C22 *)

\* what C22 says of a sleep() call that finds the anchor a at clock reading t
C22_SleepOnGrid(a, t) ==
    /\ t <= a + 2 * Period => rate'.start = a + Period
    /\ t > a + 2 * Period => rate'.start = t
    /\ t >= a + Period => tCall'.slept = 0 /\ clock' = clock

\* C22: Rate.sleep() moves the anchor by one period when the cycle did not
\* overrun or overran by at most one more period, snaps it to the current
\* time when the overrun is larger, and does not sleep on any overrun.
C22_AnchorOnGrid == [][RateSleep => C22_SleepOnGrid(rate.start, clock)]_vars

\* the same of the calls that do not find the clock behind the anchor
C22_AnchorOnGridUnlessSetBack ==
    [][RateSleep /\ clock >= rate.start
           => C22_SleepOnGrid(rate.start, clock)]_vars

\* a sleep() call has found the loop stalled and has snapped the anchor
C22_Snapped ==
    /\ tCall.op = "sleep"
    /\ rate.actual_cycle_time > 2 * Period
    /\ rate.start = clock

-----------------------------------------------------------------------------
(* C23 *)

\* what C23 says of a block() call made after start(), elapsed ticks after
\* the previous block() or start()
C23_BlockReports(elapsed) ==
    IF elapsed >= timer.period_ns
    THEN /\ tCall'.warned = 1
         /\ tCall'.slept = 0
         /\ ~tCall'.raised
         /\ clock' = clock
         /\ timer'.time_last_blocked_ns = clock
    ELSE /\ tCall'.warned = 0
         /\ ~tCall'.raised
         /\ tCall'.slept = timer.period_ns - elapsed
         /\ clock' = clock + tCall'.slept

-----------------------------------------------------------------------------
(* C24 *)

\* C24: of two successive reads of Rate.now() after the same start(), the
\* later is not smaller than the earlier, whatever the wall clock did
\* between them.
C24_NowNeverGoesBack ==
    [][RateNow /\ tCall.hasRead => tCall'.read >= tCall.read]_vars

\* the same of two successive reads of Timer.elapsed_time()
C24_ElapsedNeverGoesBack ==
    [][TimerElapsedTime /\ timer.started /\ tCall.hasRead
           => tCall'.read >= tCall.read]_vars

-----------------------------------------------------------------------------
(* C25 *)

\* C25: Timer.reset() after start() leaves the time since start() that
\* elapsed_time() reports where it was.
C25_TimerResetKeepsElapsed ==
    [][TimerReset /\ timer.started
           => Timer_elapsed_time(timer', clock')
                  = Timer_elapsed_time(timer, clock)]_vars

\* Rate.reset() leaves the time since start() that now() reports where it was
C25_RateResetKeepsNow ==
    [][RateReset => Rate_now(rate', clock') = Rate_now(rate, clock)]_vars

-----------------------------------------------------------------------------
(* C26 *)

\* exactly one of dt and freq was given to the last call
C26_OneGiven == rCall.op # "none" /\ (rCall.dt.given # rCall.freq.given)

\* the value the last call was given
C26_Given == IF rCall.dt.given THEN rCall.dt.val ELSE rCall.freq.val

\* C26: set_frequency and the constructor raise when given both dt and freq
\* and leave the stored values alone; given one of them they store it and
\* the reciprocal, so that dt * freq = 1 whenever both are defined.
C26_DtFreqReciprocal ==
    /\ rCall.dt.given /\ rCall.freq.given
           => rCall.raised = "ValueError" /\ runner = rCall.before
    /\ C26_OneGiven
           => /\ rCall.raised = "none"
              /\ rCall.dt.given => runner.has_dt /\ runner.dt = rCall.dt.val
              /\ rCall.freq.given
                     => runner.has_freq /\ runner.freq = rCall.freq.val
    /\ runner.has_dt /\ runner.has_freq
           => RMul(runner.dt, runner.freq) = RInt(1)

\* the same of the calls that are not given a zero
C26_ReciprocalOfNonZero ==
    /\ rCall.dt.given /\ rCall.freq.given
           => rCall.raised = "ValueError" /\ runner = rCall.before
    /\ C26_OneGiven /\ C26_Given # RInt(0)
           => /\ rCall.raised = "none"
              /\ rCall.dt.given => runner.has_dt /\ runner.dt = rCall.dt.val
              /\ rCall.freq.given
                     => runner.has_freq /\ runner.freq = rCall.freq.val
              /\ RMul(runner.dt, runner.freq) = RInt(1)

-----------------------------------------------------------------------------
(* C27 *)

\* the frequency observed over the arrival times ts, frames per second,
\* differs from freq by more than tol; no frequency is observed over fewer
\* than two frames, and frames that all arrive at once are infinitely fast
C27_Differs(freq, ts, tol) ==
    /\ Len(ts) >= 2
    /\ LET total == RSub(ts[Len(ts)], ts[1])
           gaps == RInt(Len(ts) - 1)
       IN  \/ total = RInt(0)
           \/ RLess(RMul(tol, total), RAbs(RSub(RMul(freq, total), gaps)))

\* C27: AffState.idle raises and leaves idled() as it was when the observed
\* frame frequency differs from the configured one by more than freq_tol and
\* no_error is false; otherwise it returns with idled() true, having fed
\* n_sample received frames to update; idled() does not change before.
C27_IdledIffReturned ==
    fOut # <<>> =>
        LET differs == C27_Differs(astate.freq, fOut.series, fArgs.freq_tol)
        IN  /\ fOut.pc = "raised"
                   => /\ differs /\ ~fArgs.no_error
                      /\ astate.idled = fOut.was
            /\ fOut.pc = "returned"
                   => /\ ~differs \/ fArgs.no_error
                      /\ astate.idled
                      /\ fOut.fed = fArgs.n_sample
            /\ fOut.pc = "loop" => astate.idled = fOut.was

\* idle() has raised on an estimator that was not idled, over frames that
\* arrived at twice the configured frequency
C27_Witness ==
    /\ fOut # <<>>
    /\ fOut.pc = "raised"
    /\ ~astate.idled
    /\ Len(fOut.series) = 3
    /\ fOut.series[3] = RAdd(fOut.series[1], astate.dt)

-----------------------------------------------------------------------------
(* C28 *)

\* the lists of the last zip call are of one length
C28_EqualLengths ==
    \A c \in 1..fArgs.n : Len(fArgs.arrays[c]) = Len(fArgs.arrays[1])

\* C28: zip of n >= 1 lists of one length interleaves them, element r of
\* list c at place (r - 1) * n + c, and unzip(.., n) of the result returns
\* the lists; unzip(s, n) of a list whose length n divides returns n lists
\* whose zip is s.
C28_ZipUnzipInverse ==
    fArgs # <<>> =>
        /\ fArgs.op = "zip" /\ C28_EqualLengths
               => /\ ~fOut.raised
                  /\ Len(fOut.out) = fArgs.n * Len(fArgs.arrays[1])
                  /\ \A c \in 1..fArgs.n : \A r \in 1..Len(fArgs.arrays[1]) :
                         fOut.out[(r - 1) * fArgs.n + c] = fArgs.arrays[c][r]
                  /\ unzip_array(fOut.out, fArgs.n)
                         = [raised |-> FALSE, out |-> fArgs.arrays]
        /\ fArgs.op = "unzip" /\ Len(fArgs.arrays[1]) % fArgs.n = 0
               => /\ ~fOut.raised
                  /\ Len(fOut.out) = fArgs.n
                  /\ zip_arrays(fOut.out)
                         = [raised |-> FALSE, out |-> fArgs.arrays[1]]

\* three lists of two elements each have been zipped into a sensory frame
C28_Witness ==
    /\ fArgs # <<>>
    /\ fArgs.op = "zip"
    /\ fArgs.n = 3
    /\ fArgs.arrays = <<Ramp(0, 2), Ramp(2, 2), Ramp(1, 2)>>
    /\ fOut.out = <<1, 3, 2, 2, 4, 3>>

-----------------------------------------------------------------------------
(* C29 *)

\* a profile has been constructed and evaluated
C29_Evaluated == fArgs # <<>> /\ fOut # <<>>

\* C29: a triangular, trapezoidal or 5th-degree profile is at q0 at every
\* t <= t0 and at qF at every t >= t0 + T, and its velocity is zero at t0
\* and at t0 + T.
C29_ProfileEnds ==
    C29_Evaluated =>
        LET p == fArgs.p
            tF == RAdd(p.t0, p.T)
        IN  /\ RLeq(fOut.t, p.t0) => fOut.q = p.q0
            /\ RLeq(tF, fOut.t) => fOut.q = p.qF
            /\ fOut.t = p.t0 \/ fOut.t = tF => fOut.dq = RInt(0)

\* a trapezoidal profile from 0 to 2 has been evaluated at its end
C29_Witness ==
    /\ C29_Evaluated
    /\ fArgs.p.name = "tra"
    /\ fArgs.p.q0 = RInt(0)
    /\ fArgs.p.qF = RInt(2)
    /\ fOut.t = RAdd(fArgs.p.t0, fArgs.p.T)
    /\ fOut.q = RInt(2)

-----------------------------------------------------------------------------
(* C30 *)

\* C30: constructing a trapezoidal profile with neither vmax nor tb raises
\* ValueError.
C30_RequiresVmaxOrTb ==
    fArgs # <<>> =>
        (fArgs.p.name = "tra" /\ ~fArgs.vmax.given /\ ~fArgs.tb.given
             => fArgs.p.raised = "ValueError")

-----------------------------------------------------------------------------
(* C31 *)

\* C31: what get_states() returns to another thread is the q and the dq of
\* one and the same update, never the q of one update with the dq of the
\* update before it.
C31_NoPartialUpdateSeen ==
    fOut # <<>> => (~fOut.raised => fOut.q = fOut.dq)

\* every estimator update is applied while the state lock is held
C31_UpdatesUnderLock == [][est' # est => stateLock # "free"]_vars

-----------------------------------------------------------------------------
(* C32 *)

\* C32: a thread that is blocked in a transport receive, in a transport send
\* or in the timer's sleep holds neither the state lock nor the control lock.
C32_NoLockWhileBlocked ==
    /\ sensPc = "s_recv" => stateLock # "sensor"
    /\ ctrlPc \in {"c_idle", "c_send", "c_sleep"} =>
           stateLock # "ctrl" /\ ctrlLock # "ctrl"

\* the same of AffCtrlThread.run, whose timer.block() is the step at c_block
C32_NoLockWhileBlockedCtrl ==
    /\ sensPc = "s_recv" => stateLock # "sensor"
    /\ ctrlPc \in {"c_idle", "c_send", "c_block"} =>
           stateLock # "ctrl" /\ ctrlLock # "ctrl"

-----------------------------------------------------------------------------
(* C33 *)

\* C33: when a control cycle has evaluated its callbacks, qdes and dqdes come
\* from the two functions of one set_trajectory call, and each function was
\* evaluated once, with the time t of the cycle.
C33_CallbacksOfOneCall ==
    (fOut # <<>> /\ ctrlPc = "t_update") =>
        /\ fOut.qdes.f = fOut.dqdes.f
        /\ fOut.qdes.n = 1 /\ fOut.dqdes.n = 1
        /\ fOut.qdes.t = fOut.t /\ fOut.dqdes.t = fOut.t

\* a cycle that evaluated the callbacks of the second set_trajectory call
C33_Witness ==
    /\ fOut # <<>>
    /\ ctrlPc = "t_update"
    /\ fOut.qdes.f = 2
    /\ fOut.calls = 2
    /\ fOut.t = 1

-----------------------------------------------------------------------------
(* C34 *)

\* C34: after n calls on one scheme object accum_qerr is the sum of
\* qdes_k - q_k over the n calls, cycles with inactive joints included, and
\* the n-th call of positional_feedback returns
\* kP*(qdes_n - q_n) + kD*(dqdes_n - dq_n) + kI*accum_qerr (cArgs holds the
\* arguments of the last call until another method is called).
C34_AccumulatesEveryError ==
    fOut # <<>> =>
        /\ actrl.feedback_scheme.accum_qerr = fOut.sum
        /\ (fOut.direct /\ cArgs # <<>>) =>
               fOut.e = NAdd(NAdd(NMul(actrl.feedback_scheme.kP,
                                       NSub(cArgs[5], cArgs[1])),
                                  NMul(actrl.feedback_scheme.kD,
                                       NSub(cArgs[6], cArgs[2]))),
                             NMul(actrl.feedback_scheme.kI, fOut.sum))

\* the third call, a control cycle with joint 0 inactive: the accumulator of
\* joint 0 has grown by the error of each call
C34_Witness ==
    /\ fOut # <<>>
    /\ cCalls = 3
    /\ ~fOut.direct
    /\ actrl.inactive_joints # <<>>
    /\ cArgs = CtrlInput({5})
    /\ fOut.sum = Arr([j \in 1..DOF |-> RInt(3 * MaxCtrlVal * j)])
    /\ actrl.feedback_scheme.accum_qerr = fOut.sum

-----------------------------------------------------------------------------
(* C35 *)

\* C35: the buffer of the moving average holds exactly n_points samples
\* after any sequence of update calls (those that raise included) and
\* set_n_points calls.
C35_BufferHoldsNPoints == Len(filt.x_buffer) = filt.n_points

\* the same of updates that return, no set_n_points call having been made
C35_BufferKeptByReturningUpdates ==
    [][(filt'.n_points = filt.n_points /\ ~IsErr(filtOut'))
           => Len(filt'.x_buffer) = Len(filt.x_buffer)]_vars

-----------------------------------------------------------------------------
(* C36 *)

\* C36: an update that raises leaves the estimator as it was before the
\* call: raw data, channels, filters, q_prev, dq and n_steps.
C36_FailedUpdateChangesNothing ==
    [][(aCalls' = aCalls + 1 /\ aRaised') => astate' = astate]_vars

\* what a failed update does keep: q_prev, dq and the step count
C36_FailedUpdateKeepsVelocity ==
    [][(aCalls' = aCalls + 1 /\ aRaised') =>
           /\ astate'.q_prev = astate.q_prev
           /\ astate'.dq = astate.dq
           /\ astate'.n_steps = astate.n_steps]_vars

-----------------------------------------------------------------------------
(* C37 *)

\* C37: the period Timer.block waits for in the control loop is 1/freq of
\* the controller's current frequency (in whole nanoseconds, as the timer
\* keeps it).
C37_PacedAtCurrentFreq ==
    fOut # <<>> => fOut.period_ns = NsOf(RDiv(RInt(1), runner.freq))

\* the timer's period is never changed once the thread object is made
C37_PeriodFixedAtConstruction ==
    [][runner.has_freq => timer'.period_ns = timer.period_ns]_vars

-----------------------------------------------------------------------------
(* C38 *)

\* C38: when the control thread created and started the sensor thread,
\* join() of the control thread stops it too: once join() has returned the
\* sensor thread is not running.
C38_JoinStopsSensor == ctrlJoined => ~SensorAlive

\* join() of the control thread never sets the stop flag of the sensor
\* thread
C38_JoinLeavesSensorFlag ==
    [][(mainPc = "m_join_set" \/ mainPc = "m_join")
           => (sensStopped' = sensStopped)]_vars

-----------------------------------------------------------------------------
(* C39 *)

\* C39: on a clock that never goes back and without reset(), the k-th
\* return of Timer.block() after start() is at least k periods after that
\* start(), and so is the k-th return of Rate.sleep().
C39_NeverFasterThanRate ==
    fOut # <<>> =>
        /\ (timer.started /\ fOut.blocks > 0) =>
               fOut.block_at - timer.time_started_ns >= fOut.blocks * Period
        /\ fOut.sleeps > 0 =>
               fOut.sleep_at - rate.start_timer >= fOut.sleeps * Period

\* the second return of each after a first cycle that overran its period
C39_Witness ==
    /\ fOut # <<>>
    /\ timer.started
    /\ fOut.blocks = 2
    /\ fOut.block_at - timer.time_started_ns > 2 * Period
    /\ fOut.sleeps = 2
    /\ rate.actual_cycle_time < Period
    /\ fOut.sleep_at - rate.start_timer = 2 * Period

-----------------------------------------------------------------------------
(* C40 *)

\* C40: once the control thread has been started, a wait_for_idling() call
\* without timeout eventually returns True.
C40_WaitEventuallyReturnsTrue ==
    (mainPc = "m_wait" /\ ctrlPc # "c_none") ~> (waitCall.result = "True")

\* the wait returns in the end unless the control thread has crashed in its
\* calibration
C40_WaitReturnsUnlessCrashed ==
    (mainPc = "m_wait" /\ ctrlPc # "c_none") ~>
        (waitCall.result = "True" \/ (ctrlPc = "c_crashed" /\ ~idledEvent))

=============================================================================
